---------------------------- MODULE Spec2Model ----------------------------
(***************************************************************************)
(* A model of three subsystems of the LaTeX editor:                        *)
(*   - EditTracker (utils/editGroupsTracking), specification SpecTracker   *)
(*   - the AST builder (utils/latexAST.ts) and the current-node lookup of  *)
(*     AIChat.tsx, specification SpecAST                                   *)
(*   - compileLatex (utils/latexCompiler), specification SpecCompile       *)
(*     and, on a document that is one tabular environment, SpecTabular     *)
(* Strings are sequences of characters (one-character TLA+ strings); the   *)
(* compiler's strings are sequences of tokens, see the compiler section.   *)
(***************************************************************************)
EXTENDS Integers, Sequences, FiniteSets, TLC

VARIABLES
    \* ---- EditTracker and the editor it tracks
    modelContent,          \* editor.getModel().getValue()
    previousModelContent,  \* EditTracker.previousModelContent
    editGroups,            \* EditTracker.editGroups
    maxHistorySize,        \* EditTracker.maxHistorySize
    now,                   \* the clock read by Date.now()
    nCalls,                \* calls counted against MaxCalls so far
    lastCall,              \* the call made last, with the operations it built
    arrived,               \* operations built since the history was last empty by construction or clearHistory
    evicted                \* whether a trim has removed a group since then

trackerVars == <<modelContent, previousModelContent, editGroups, maxHistorySize,
                 now, nCalls, lastCall, arrived, evicted>>

VARIABLES
    \* ---- the AST builder and the context provider of AIChat.tsx
    doc,          \* the document, as the shape of the parser's output for it
    documentAST,  \* the documentAST state: [defined, heap, content]
    cursorOffset, \* cursorInfo.offset, NoCursor while cursorInfo is null
    currentNode,  \* the currentNode state
    lastParse,    \* how the last parseLatex call ended: "none", "ok", "threw"
    work          \* a node sequence under repeated restructureNodes:
                  \* [heap, content, passes, thrown]

astVars == <<doc, documentAST, cursorOffset, currentNode, lastParse, work>>

VARIABLES
    \* ---- compileLatex and its caller
    source,       \* the preview's content, the LaTeX source
    typed,        \* how many snippets the source is made of
    compiled,     \* the last compilation: [done, latex, uncommented,
                  \* headings, body]
    clock,        \* the day new Date() reports, counted from the first day
    table         \* the tabular environment the source was written as:
                  \* [columns, rows], NoTable for any other source

compileVars == <<source, typed, compiled, clock, table>>

VARIABLES
    \* ---- the timers and the state of the LatexPreview component
    preview       \* [mounted, debounce, settles, isCompiling, shown]

previewVars == <<preview>>

vars == <<trackerVars, astVars, compileVars, previewVars>>

\* What each subsystem leaves alone.
notTracker == <<astVars, compileVars, previewVars>>
notAST == <<trackerVars, compileVars, previewVars>>
notCompile == <<trackerVars, astVars, previewVars>>
notPreview == <<trackerVars, astVars, clock, table>>

-----------------------------------------------------------------------------
(* Strings                                                                 *)

Min(a, b) == IF a < b THEN a ELSE b
Max(a, b) == IF a > b THEN a ELSE b
Abs(a) == IF a < 0 THEN -a ELSE a

Last(s) == s[Len(s)]
Front(s) == SubSeq(s, 1, Len(s) - 1)

\* String.prototype.substring(a, b): both ends clamped to [0, length], swapped
\* when a > b; positions are 0-based, b exclusive.
Substring(s, a, b) ==
    LET ca == Max(0, Min(a, Len(s)))
        cb == Max(0, Min(b, Len(s)))
    IN  SubSeq(s, Min(ca, cb) + 1, Max(ca, cb))

\* String.prototype.endsWith
EndsWith(s, t) ==
    /\ Len(t) <= Len(s)
    /\ SubSeq(s, Len(s) - Len(t) + 1, Len(s)) = t

\* String.prototype.includes
Includes(s, t) ==
    \E i \in 0..(Len(s) - Len(t)) : SubSeq(s, i + 1, i + Len(t)) = t

\* String.prototype.split("\n"): the lines of s, at least one.
RECURSIVE SplitLines(_)
SplitLines(s) ==
    IF \A i \in 1..Len(s) : s[i] # "\n" THEN <<s>>
    ELSE LET k == CHOOSE i \in 1..Len(s) :
                      s[i] = "\n" /\ \A j \in 1..(i - 1) : s[j] # "\n"
         IN  <<SubSeq(s, 1, k - 1)>> \o SplitLines(SubSeq(s, k + 1, Len(s)))

RECURSIVE Concat(_)
Concat(ss) == IF ss = <<>> THEN <<>> ELSE Head(ss) \o Concat(Tail(ss))

\* F(x) with the argument evaluated once, as a call passes a value.
ByValue(F(_), x) == CHOOSE r \in {F(v) : v \in {x}} : TRUE

-----------------------------------------------------------------------------
(* EditTracker: constants and pure helpers                                 *)

EDIT_GROUPING_THRESHOLD == 1000
AdjacentColumns == 20
DefaultMaxHistorySize == 20

\* extractTextFromRange: the text of `content` inside `range`, line by line.
\* A line number past the last line gives ""; a start line below 1 makes
\* lines[lineNumber - 1] undefined, the TypeError is caught and "" returned.
LinePiece(lines, range, n) ==
    LET line == lines[n]
    IN  IF n = range.startLineNumber /\ n = range.endLineNumber
        THEN Substring(line, Min(range.startColumn - 1, Len(line)),
                             Min(range.endColumn - 1, Len(line)))
        ELSE IF n = range.startLineNumber
        THEN Substring(line, Min(range.startColumn - 1, Len(line)), Len(line))
                 \o <<"\n">>
        ELSE IF n = range.endLineNumber
        THEN Substring(line, 0, Min(range.endColumn - 1, Len(line)))
        ELSE line \o <<"\n">>

ExtractTextFromRange(range, content) ==
    LET lines == SplitLines(content)
    IN  IF range.startLineNumber > Len(lines) \/ range.endLineNumber > Len(lines)
        THEN <<>>
        ELSE IF range.startLineNumber <= range.endLineNumber
                /\ range.startLineNumber < 1
        THEN <<>>
        ELSE Concat([k \in 1..Max(0, range.endLineNumber - range.startLineNumber + 1)
                        |-> LinePiece(lines, range, range.startLineNumber + k - 1)])

\* areAdjacentOperations(a, b)
AreAdjacentOperations(a, b) ==
    IF Abs(a.range.startLineNumber - b.range.startLineNumber) > 1
    THEN FALSE
    ELSE IF a.range.startLineNumber = b.range.startLineNumber
    THEN \/ Abs(a.range.startColumn - b.range.endColumn) <= AdjacentColumns
         \/ Abs(b.range.startColumn - a.range.endColumn) <= AdjacentColumns
    ELSE TRUE

\* [...operations].sort((a, b) => a.timestamp - b.timestamp): stable.
RECURSIVE InsertByTimestamp(_, _)
InsertByTimestamp(sorted, x) ==
    IF sorted = <<>> THEN <<x>>
    ELSE IF Last(sorted).timestamp <= x.timestamp THEN Append(sorted, x)
    ELSE Append(InsertByTimestamp(Front(sorted), x), Last(sorted))

RECURSIVE SortByTimestamp(_)
SortByTimestamp(s) ==
    IF s = <<>> THEN <<>>
    ELSE InsertByTimestamp(SortByTimestamp(Front(s)), Last(s))

\* deletionStack.sort((a, b) => a.position - b.position): stable.
RECURSIVE InsertByPosition(_, _)
InsertByPosition(sorted, x) ==
    IF sorted = <<>> THEN <<x>>
    ELSE IF Last(sorted).position <= x.position THEN Append(sorted, x)
    ELSE Append(InsertByPosition(Front(sorted), x), Last(sorted))

RECURSIVE SortByPosition(_)
SortByPosition(s) ==
    IF s = <<>> THEN <<>>
    ELSE InsertByPosition(SortByPosition(Front(s)), Last(s))

\* SimulateOp with the text of an insert put in front of the running state.
SimulateOpPrepending(st, op) ==
    IF op.type = "insert"
    THEN [st EXCEPT !.documentState = op.text \o @]
    ELSE LET undone ==
                 IF EndsWith(st.documentState, op.deletedText)
                 THEN [st EXCEPT !.documentState =
                          Substring(@, 0, Len(@) - Len(op.deletedText))]
                 ELSE [st EXCEPT !.deletionStack =
                          Append(@, [text |-> op.deletedText,
                                     position |-> op.range.startColumn])]
         IN  IF op.type = "delete"
             THEN undone
             ELSE [undone EXCEPT !.documentState = @ \o op.text]

\* SimulateOp with every deleted text taken for original text: nothing typed
\* in the group is ever taken back.
SimulateOpNoCorrection(st, op) ==
    IF op.type = "insert"
    THEN [st EXCEPT !.documentState = @ \o op.text]
    ELSE LET pushed == [st EXCEPT !.deletionStack =
                           Append(@, [text |-> op.deletedText,
                                      position |-> op.range.startColumn])]
         IN  IF op.type = "delete"
             THEN pushed
             ELSE [pushed EXCEPT !.documentState = @ \o op.text]

\* One step of the replay loop of createEditGroup: st is
\* [documentState, deletionStack].
SimulateOp(st, op) ==
    IF op.type = "insert"
    THEN [st EXCEPT !.documentState = @ \o op.text]
    ELSE LET undone ==
                 IF EndsWith(st.documentState, op.deletedText)
                 THEN [st EXCEPT !.documentState =
                          Substring(@, 0, Len(@) - Len(op.deletedText))]
                 ELSE [st EXCEPT !.deletionStack =
                          Append(@, [text |-> op.deletedText,
                                     position |-> op.range.startColumn])]
         IN  IF op.type = "delete"
             THEN undone
             ELSE [undone EXCEPT !.documentState = @ \o op.text]

RECURSIVE SimulateOps(_, _)
SimulateOps(st, ops) ==
    IF ops = <<>> THEN st
    ELSE SimulateOps(SimulateOp(st, Head(ops)), Tail(ops))

\* GroupType with the deletion test made first, so that a group with both
\* net texts is typed a deletion.
GroupTypeDeletionFirst(netDeletedText, netInsertedText) ==
    IF netDeletedText # <<>> THEN "deletion"
    ELSE IF netInsertedText # <<>> THEN "insertion"
    ELSE "insertion"

\* The group type from the net texts (createEditGroup, "Determine type").
GroupType(netDeletedText, netInsertedText) ==
    IF netDeletedText # <<>> /\ netInsertedText # <<>> THEN "replacement"
    ELSE IF netDeletedText # <<>> THEN "deletion"
    ELSE "insertion"

\* createEditGroup(operations), operations non-empty.
CreateEditGroup(operations) ==
    LET sortedOps == SortByTimestamp(operations)
        firstOp == sortedOps[1]
        original0 == IF firstOp.type \in {"delete", "replace"}
                     THEN firstOp.deletedText ELSE <<>>
        sim == SimulateOps([documentState |-> <<>>, deletionStack |-> <<>>],
                           sortedOps)
        sortedStack == SortByPosition(sim.deletionStack)
        orderedDeletedText ==
            Concat([i \in 1..Len(sortedStack) |-> sortedStack[i].text])
        originalContent ==
            IF sim.deletionStack # <<>> /\ orderedDeletedText # <<>>
               /\ ~Includes(original0, orderedDeletedText)
            THEN orderedDeletedText ELSE original0
        finalContent == sim.documentState
        net == IF originalContent # <<>> /\ finalContent # <<>>
               THEN [deleted |-> originalContent, inserted |-> finalContent]
               ELSE IF originalContent # <<>> /\ finalContent = <<>>
               THEN [deleted |-> originalContent, inserted |-> <<>>]
               ELSE IF originalContent = <<>> /\ finalContent # <<>>
               THEN [deleted |-> <<>>, inserted |-> finalContent]
               ELSE [deleted |-> <<>>, inserted |-> <<>>]
    IN  [operations |-> sortedOps,
         type |-> GroupType(net.deleted, net.inserted),
         startTime |-> sortedOps[1].timestamp,
         endTime |-> Last(sortedOps).timestamp,
         insertedText |-> net.inserted,
         deletedText |-> net.deleted]

\* Array.prototype.slice(-n): the last n elements; slice(-0) is slice(0),
\* the whole array.
SliceLast(s, n) ==
    IF n = 0 THEN s
    ELSE SubSeq(s, Max(1, Len(s) - n + 1), Len(s))

\* The trim keeping the oldest groups.
TrimHistoryOldest(groups, size) ==
    IF Len(groups) > size THEN SubSeq(groups, 1, size) ELSE groups

\* The trim shared by processEditorContentChanges and setMaxHistorySize.
TrimHistory(groups, size) ==
    IF Len(groups) > size THEN SliceLast(groups, size) ELSE groups

-----------------------------------------------------------------------------
(* The editor: the content-change events Monaco delivers                   *)

MaxCalls == 2
Chars == {"a", "b"}
ReplaceChar == "z"
Deltas == {500, 1000, 1500}
SiteColumns == {1, 21, 22}
HistorySizes == {0, 1, 2}

\* The document the editor holds when the tracker is constructed: a first
\* line of 22 characters, then two one-character lines.
InitialContent ==
    <<"a">> \o [i \in 1..20 |-> "x"] \o <<"b", "\n", "c", "\n", "d">>

\* The 1-based (line, column) of 0-based offset off in content.
PositionAt(content, off) ==
    LET breaks == {i \in 1..off : content[i] = "\n"}
        lineStart == IF breaks = {} THEN 0
                     ELSE CHOOSE i \in breaks : \A j \in breaks : j <= i
    IN  [lineNumber |-> Cardinality(breaks) + 1, column |-> off - lineStart + 1]

\* The offsets at which the user edits.
EditSites(content) ==
    {o \in 0..Len(content) : PositionAt(content, o).column \in SiteColumns}

\* The IModelContentChange replacing content[o1, o2) by text.
MakeChange(content, o1, o2, text) ==
    [range |-> [startLineNumber |-> PositionAt(content, o1).lineNumber,
                startColumn |-> PositionAt(content, o1).column,
                endLineNumber |-> PositionAt(content, o2).lineNumber,
                endColumn |-> PositionAt(content, o2).column],
     rangeOffset |-> o1,
     rangeLength |-> o2 - o1,
     text |-> text]

\* The single changes a user makes: type a character, delete the character
\* at the site, overwrite it.
SingleChanges(content) ==
    LET sites == EditSites(content)
    IN  {MakeChange(content, o, o, <<c>>) : o \in sites, c \in Chars}
        \cup {MakeChange(content, o, o + 1, <<>>) : o \in sites \ {Len(content)}}
        \cup {MakeChange(content, o, o + 1, <<ReplaceChar>>) :
                  o \in sites \ {Len(content)}}

\* The events: one change, or two cursors typing "a", one cursor at the
\* start of the document and one at a later site; the change at the later
\* offset comes first (Monaco's order).
Events(content) ==
    {<<ch>> : ch \in SingleChanges(content)}
    \cup {<<MakeChange(content, o, o, <<"a">>), MakeChange(content, 0, 0, <<"a">>)>> :
              o \in EditSites(content) \ {0}}

ApplyChange(content, ch) ==
    SubSeq(content, 1, ch.rangeOffset) \o ch.text
        \o SubSeq(content, ch.rangeOffset + ch.rangeLength + 1, Len(content))

\* The content after an event: its changes are disjoint and given against
\* the content before it, so they are applied from the last offset down.
RECURSIVE ApplyEvent(_, _)
ApplyEvent(content, changes) ==
    IF changes = <<>> THEN content
    ELSE LET k == CHOOSE i \in 1..Len(changes) :
                      \A j \in 1..Len(changes) :
                          changes[j].rangeOffset <= changes[i].rangeOffset
         IN  ApplyEvent(ApplyChange(content, changes[k]),
                        [i \in 1..(Len(changes) - 1) |->
                            IF i < k THEN changes[i] ELSE changes[i + 1]])

-----------------------------------------------------------------------------
(* EditTracker: operations                                                 *)

NoOperation == [type |-> "none"]

\* The EditOperation built from one change (processEditorContentChanges,
\* the head of the forEach body).
BuildOperation(change, previousContent, currentTime) ==
    LET isDelete == change.text = <<>> /\ change.rangeLength > 0
        isInsert == change.text # <<>> /\ change.rangeLength = 0
        isReplace == change.text # <<>> /\ change.rangeLength > 0
    IN  [type |-> IF isDelete THEN "delete"
                  ELSE IF isInsert THEN "insert" ELSE "replace",
         range |-> change.range,
         text |-> change.text,
         deletedText |-> IF isDelete \/ isReplace
                         THEN ExtractTextFromRange(change.range, previousContent)
                         ELSE <<>>,
         timestamp |-> currentTime]

\* ShouldAppend with the threshold test made strict.
ShouldAppendStrict(op, lastOperation) ==
    /\ op.timestamp - lastOperation.timestamp < EDIT_GROUPING_THRESHOLD
    /\ AreAdjacentOperations(op, lastOperation)

\* The grouping test of processEditorContentChanges.
ShouldAppend(op, lastOperation) ==
    /\ op.timestamp - lastOperation.timestamp <= EDIT_GROUPING_THRESHOLD
    /\ AreAdjacentOperations(op, lastOperation)

\* ProcessChange storing every new group without its operations.
ProcessChangeEmptyGroup(st, op, mostRecentEditGroup) ==
    [groups |-> Append(st.groups,
                       [CreateEditGroup(<<op>>) EXCEPT !.operations = <<>>]),
     lastOperation |-> op]

\* ProcessChange that also stamps the oldest group with the operation's time.
ProcessChangeTouchingOldest(st, op, mostRecentEditGroup) ==
    [groups |-> Append(IF Len(st.groups) >= 2
                       THEN [st.groups EXCEPT ![1].endTime = op.timestamp]
                       ELSE st.groups,
                       CreateEditGroup(<<op>>)),
     lastOperation |-> op]

\* One iteration of event.changes.forEach: st is [groups, lastOperation];
\* mostRecentEditGroup is the group read before the loop.
ProcessChange(st, op, mostRecentEditGroup) ==
    IF st.lastOperation = NoOperation
    THEN [st EXCEPT !.groups = Append(@, CreateEditGroup(<<op>>))]
    ELSE IF ShouldAppend(op, st.lastOperation)
    THEN [groups |-> Append(Front(st.groups),
                            CreateEditGroup(Append(mostRecentEditGroup.operations, op))),
          lastOperation |-> op]
    ELSE [groups |-> Append(st.groups, CreateEditGroup(<<op>>)),
          lastOperation |-> op]

RECURSIVE ProcessChanges(_, _, _)
ProcessChanges(st, ops, mostRecentEditGroup) ==
    IF ops = <<>> THEN st
    ELSE ProcessChanges(ProcessChange(st, Head(ops), mostRecentEditGroup),
                        Tail(ops), mostRecentEditGroup)

\* OperationsOf reading the deleted text from an empty snapshot.
OperationsOfEmptySnapshot(changes, previousContent, currentTime) ==
    [i \in 1..Len(changes) |-> BuildOperation(changes[i], <<>>, currentTime)]

\* The operations of an event, in array order.
OperationsOf(changes, previousContent, currentTime) ==
    [i \in 1..Len(changes) |->
        BuildOperation(changes[i], previousContent, currentTime)]

\* The history after the forEach loop, before the trim.
GroupedHistory(groups, ops) ==
    LET mostRecentEditGroup == IF groups = <<>> THEN NoOperation ELSE Last(groups)
        lastOperation == IF groups = <<>> THEN NoOperation
                         ELSE Last(mostRecentEditGroup.operations)
    IN  ProcessChanges([groups |-> groups, lastOperation |-> lastOperation],
                       ops, mostRecentEditGroup).groups

TrackerInit ==
    /\ modelContent = InitialContent
    /\ previousModelContent = InitialContent
    /\ editGroups = <<>>
    /\ maxHistorySize = DefaultMaxHistorySize
    /\ now = 0
    /\ nCalls = 0
    /\ lastCall = [kind |-> "new", ops |-> <<>>, size |-> 0]
    /\ arrived = <<>>
    /\ evicted = FALSE

\* A first burst of typing on the initial document: 'a' typed at (1,1) at
\* 500 ms and 'b' typed at (1,2) at 1000 ms.  Each is an insert operation, the
\* second within the threshold of and adjacent to the first, so that the
\* history is one insertion group of the two.
BurstContent == <<"a", "b">> \o InitialContent

BurstOperations ==
    <<[type |-> "insert",
       range |-> [startLineNumber |-> 1, startColumn |-> 1,
                  endLineNumber |-> 1, endColumn |-> 1],
       text |-> <<"a">>, deletedText |-> <<>>, timestamp |-> 500],
      [type |-> "insert",
       range |-> [startLineNumber |-> 1, startColumn |-> 2,
                  endLineNumber |-> 1, endColumn |-> 2],
       text |-> <<"b">>, deletedText |-> <<>>, timestamp |-> 1000]>>

BurstHistory ==
    <<[operations |-> BurstOperations, type |-> "insertion",
       startTime |-> 500, endTime |-> 1000,
       insertedText |-> <<"a", "b">>, deletedText |-> <<>>]>>

\* A session picked up after the typing burst; the burst counts as one call.
TrackerResumed ==
    /\ modelContent = BurstContent
    /\ previousModelContent = BurstContent
    /\ editGroups = BurstHistory
    /\ maxHistorySize = DefaultMaxHistorySize
    /\ now = 1000
    /\ nCalls = 1
    /\ lastCall = [kind |-> "process", ops |-> <<BurstOperations[2]>>, size |-> 0]
    /\ arrived = BurstOperations
    /\ evicted = FALSE

\* The user edits the document; Monaco applies the changes and the tracker's
\* processEditorContentChanges handles the event.
ProcessEditorContentChanges ==
    /\ nCalls < MaxCalls
    /\ \E changes \in Events(modelContent), d \in Deltas :
         LET currentTime == now + d
             ops == OperationsOf(changes, previousModelContent, currentTime)
             grouped == GroupedHistory(editGroups, ops)
         IN  /\ modelContent' = ApplyEvent(modelContent, changes)
             /\ now' = currentTime
             /\ editGroups' = TrimHistory(grouped, maxHistorySize)
             /\ previousModelContent' = modelContent'
             /\ lastCall' = [kind |-> "process", ops |-> ops, size |-> 0]
             /\ arrived' = arrived \o ops
             /\ evicted' = (evicted \/ Len(editGroups') < Len(grouped))
    /\ nCalls' = nCalls + 1
    /\ UNCHANGED <<maxHistorySize, notTracker>>

SetMaxHistorySize ==
    /\ nCalls < MaxCalls
    /\ \E size \in HistorySizes :
         /\ maxHistorySize' = size
         /\ editGroups' = TrimHistory(editGroups, size)
         /\ lastCall' = [kind |-> "setMaxHistorySize", ops |-> <<>>, size |-> size]
    /\ evicted' = (evicted \/ Len(editGroups') < Len(editGroups))
    /\ nCalls' = nCalls + 1
    /\ UNCHANGED <<modelContent, previousModelContent, now, arrived, notTracker>>

\* getMostRecentEditGroup: null on an empty history, else the last group.
NullGroup == [type |-> "null"]

GetMostRecentEditGroup(groups) ==
    IF Len(groups) = 0 THEN NullGroup ELSE groups[Len(groups)]

\* clearHistory keeping the most recent group.
ClearHistoryKeepingRecent ==
    /\ nCalls < MaxCalls
    /\ editGroups' = SliceLast(editGroups, 1)
    /\ lastCall' = [kind |-> "clearHistory", ops |-> <<>>, size |-> 0]
    /\ arrived' = <<>>
    /\ evicted' = FALSE
    /\ nCalls' = nCalls + 1
    /\ UNCHANGED <<modelContent, previousModelContent, maxHistorySize, now, notTracker>>

ClearHistory ==
    /\ nCalls < MaxCalls
    /\ editGroups' = <<>>
    /\ lastCall' = [kind |-> "clearHistory", ops |-> <<>>, size |-> 0]
    /\ arrived' = <<>>
    /\ evicted' = FALSE
    /\ nCalls' = nCalls + 1
    /\ UNCHANGED <<modelContent, previousModelContent, maxHistorySize, now, notTracker>>

\* getRecentChangesSummary(): what it returns for the groups at time at.
RecentChangesSummary(groups, at) ==
    [i \in 1..Len(groups) |->
        [type |-> groups[i].type, insertedText |-> groups[i].insertedText,
         deletedText |-> groups[i].deletedText,
         timeElapsed |-> at - groups[i].endTime]]

\* The three read accessors; lastCall.returned holds what was returned.
GetEditGroups ==
    /\ nCalls < MaxCalls
    /\ lastCall' = [kind |-> "getEditGroups", ops |-> <<>>, size |-> 0,
                    returned |-> editGroups]
    /\ nCalls' = nCalls + 1
    /\ UNCHANGED <<modelContent, previousModelContent, editGroups, maxHistorySize,
                   now, arrived, evicted, notTracker>>

GetMostRecentEditGroupCall ==
    /\ nCalls < MaxCalls
    /\ lastCall' = [kind |-> "getMostRecentEditGroup", ops |-> <<>>, size |-> 0,
                    returned |-> GetMostRecentEditGroup(editGroups)]
    /\ nCalls' = nCalls + 1
    /\ UNCHANGED <<modelContent, previousModelContent, editGroups, maxHistorySize,
                   now, arrived, evicted, notTracker>>

GetRecentChangesSummary ==
    /\ nCalls < MaxCalls
    /\ lastCall' = [kind |-> "getRecentChangesSummary", ops |-> <<>>, size |-> 0,
                    returned |-> RecentChangesSummary(editGroups, now)]
    /\ nCalls' = nCalls + 1
    /\ UNCHANGED <<modelContent, previousModelContent, editGroups, maxHistorySize,
                   now, arrived, evicted, notTracker>>

TrackerNext ==
    \/ ProcessEditorContentChanges
    \/ SetMaxHistorySize
    \/ ClearHistory
    \/ GetEditGroups
    \/ GetMostRecentEditGroupCall
    \/ GetRecentChangesSummary


-----------------------------------------------------------------------------
(* EditTracker called with whatever its signature admits: the editor may   *)
(* have no model, the snapshot may be out of date, and a change may carry  *)
(* a range outside the snapshot or replace nothing by nothing.             *)

\* editor.getModel() is null.
NoModel == <<"null">>

\* Ranges outside content: a line past the last one, line 0, columns wholly
\* and partly past the end of the first line.
MalformedRanges(content) ==
    LET lines == SplitLines(content)
        n == Len(lines)
        w == Len(lines[1])
    IN  {[startLineNumber |-> n + 1, startColumn |-> 1,
          endLineNumber |-> n + 1, endColumn |-> 2],
         [startLineNumber |-> n, startColumn |-> 1,
          endLineNumber |-> n + 1, endColumn |-> 1],
         [startLineNumber |-> 0, startColumn |-> 1,
          endLineNumber |-> 0, endColumn |-> 2],
         [startLineNumber |-> 0, startColumn |-> 1,
          endLineNumber |-> 1, endColumn |-> 2],
         [startLineNumber |-> 1, startColumn |-> w + 5,
          endLineNumber |-> 1, endColumn |-> w + 9],
         [startLineNumber |-> 1, startColumn |-> w,
          endLineNumber |-> 1, endColumn |-> w + 5]}

\* A delete or a replace with a malformed range; the editor's content ends
\* where the change is said to start.
MalformedChanges(content) ==
    {[range |-> r, rangeOffset |-> Len(content), rangeLength |-> 1, text |-> t] :
        r \in MalformedRanges(content), t \in {<<>>, <<ReplaceChar>>}}

\* The change that replaces nothing by nothing.
EmptyChange(content) == MakeChange(content, 0, 0, <<>>)

\* The events: one change, well formed, malformed or empty, or two changes,
\* the one at the later offset first: two cursors deleting, or a malformed
\* delete and a delete of the first character.
RawEvents(content) ==
    {<<ch>> : ch \in SingleChanges(content) \cup MalformedChanges(content)
                       \cup {EmptyChange(content)}}
    \cup {<<MakeChange(content, o, o + 1, <<>>), MakeChange(content, 0, 1, <<>>)>> :
              o \in EditSites(content) \ {0, Len(content)}}
    \cup {<<ch, MakeChange(content, 0, 1, <<>>)>> :
              ch \in {c \in MalformedChanges(content) : c.text = <<>>}}

\* The constructor: the snapshot is the model's value, or "" without a model.
RawTrackerInit ==
    /\ modelContent \in {InitialContent, NoModel}
    /\ previousModelContent = IF modelContent = NoModel THEN <<>> ELSE modelContent
    /\ editGroups = <<>>
    /\ maxHistorySize = DefaultMaxHistorySize
    /\ now = 0
    /\ nCalls = 0
    /\ lastCall = [kind |-> "new", ops |-> <<>>, size |-> 0, changes |-> <<>>]
    /\ arrived = <<>>
    /\ evicted = FALSE

\* editor.setModel(model): the editor gets its document.
AttachModel ==
    /\ modelContent = NoModel
    /\ modelContent' = InitialContent
    /\ UNCHANGED <<previousModelContent, editGroups, maxHistorySize, now, nCalls,
                   lastCall, arrived, evicted, notTracker>>

\* processEditorContentChanges while the editor has no model: the early
\* return.
ProcessWithoutModel ==
    /\ nCalls < MaxCalls
    /\ modelContent = NoModel
    /\ lastCall' = [kind |-> "processWithoutModel", ops |-> <<>>, size |-> 0,
                    changes |-> <<>>]
    /\ nCalls' = nCalls + 1
    /\ UNCHANGED <<modelContent, previousModelContent, editGroups, maxHistorySize,
                   now, arrived, evicted, notTracker>>

\* processEditorContentChanges on any event, 500 ms after the call before.
ProcessRawChanges ==
    /\ nCalls < MaxCalls
    /\ modelContent # NoModel
    /\ \E changes \in RawEvents(modelContent) :
         LET currentTime == now + 500
             ops == OperationsOf(changes, previousModelContent, currentTime)
             grouped == GroupedHistory(editGroups, ops)
         IN  /\ modelContent' = ApplyEvent(modelContent, changes)
             /\ now' = currentTime
             /\ editGroups' = TrimHistory(grouped, maxHistorySize)
             /\ previousModelContent' = modelContent'
             /\ lastCall' = [kind |-> "process", ops |-> ops, size |-> 0,
                             changes |-> changes]
             /\ arrived' = arrived \o ops
             /\ evicted' = (evicted \/ Len(editGroups') < Len(grouped))
    /\ nCalls' = nCalls + 1
    /\ UNCHANGED <<maxHistorySize, notTracker>>

RawTrackerNext ==
    \/ ProcessRawChanges
    \/ ProcessWithoutModel
    \/ AttachModel

-----------------------------------------------------------------------------
(* EditTracker: properties                                                 *)

\* The operations of the history, groups in history order and each group's
\* operations in order.
AllOperations(groups) ==
    Concat([i \in 1..Len(groups) |-> groups[i].operations])

\* s is a suffix of t.
IsSuffix(s, t) ==
    /\ Len(s) <= Len(t)
    /\ SubSeq(t, Len(t) - Len(s) + 1, Len(t)) = s

\* C1: while no group has been evicted, the operations read from the groups
\* in history order are exactly the operations built from the changes, in
\* arrival order: none dropped, duplicated or reordered.
C1_OperationsKeptInArrivalOrder ==
    ~evicted => AllOperations(editGroups) = arrived

\* C2: the history never holds more groups than maxHistorySize, and right
\* after setMaxHistorySize(k) it holds at most k groups.
C2_HistoryBound ==
    /\ Len(editGroups) <= maxHistorySize
    /\ lastCall.kind = "setMaxHistorySize" => Len(editGroups) <= lastCall.size

\* The adjacency of claim C3: start lines at most 1 apart and, on the same
\* start line, one operation's start column within 20 of the other's end
\* column.
C3_Adjacent(a, b) ==
    /\ a.range.startLineNumber - b.range.startLineNumber \in {-1, 0, 1}
    /\ a.range.startLineNumber = b.range.startLineNumber =>
          \/ a.range.startColumn - b.range.endColumn \in -20..20
          \/ b.range.startColumn - a.range.endColumn \in -20..20

\* C3: a single-change event on a non-empty history appends its operation
\* to the most recent group iff it comes at most 1000 ms after that group's
\* last operation and is adjacent to it; otherwise a new group holding only
\* that operation is appended to the history.
C3_Step ==
    (/\ nCalls' = nCalls + 1
     /\ lastCall'.kind = "process"
     /\ Len(lastCall'.ops) = 1
     /\ editGroups # <<>>)
    => LET op == lastCall'.ops[1]
           recent == Last(editGroups)
           last == Last(recent.operations)
       IN  IF op.timestamp - last.timestamp <= 1000 /\ C3_Adjacent(op, last)
           THEN /\ Len(editGroups') = Len(editGroups)
                /\ Front(editGroups') = Front(editGroups)
                /\ Last(editGroups').operations = Append(recent.operations, op)
           ELSE /\ editGroups' # <<>>
                /\ Last(editGroups').operations = <<op>>
                /\ IsSuffix(Front(editGroups'), editGroups)

C3_GroupingRule == [][C3_Step]_vars

\* C3, its example: two operations at one location 500 ms apart in one group.
C3_Witness ==
    /\ lastCall.kind = "process"
    /\ Len(lastCall.ops) = 1
    /\ Len(editGroups) = 1
    /\ Len(editGroups[1].operations) = 2
    /\ editGroups[1].operations[2] = lastCall.ops[1]
    /\ editGroups[1].operations[2].timestamp
           - editGroups[1].operations[1].timestamp = 500
    /\ editGroups[1].operations[2].range = editGroups[1].operations[1].range

\* C4: every group's type is the one its net texts determine.
C4_TypeFromNetTexts ==
    \A i \in 1..Len(editGroups) :
        LET g == editGroups[i]
        IN  /\ g.type = "replacement" <=>
                   (g.deletedText # <<>> /\ g.insertedText # <<>>)
            /\ g.type = "deletion" <=>
                   (g.deletedText # <<>> /\ g.insertedText = <<>>)
            /\ g.type = "insertion" <=> g.deletedText = <<>>

\* C4: a history holding a replacement, a deletion and an insertion group.
C4_Witness ==
    \E i, j \in 1..Len(editGroups) :
        /\ editGroups[i].type = "replacement"
        /\ editGroups[i].deletedText # <<>>
        /\ editGroups[i].insertedText # <<>>
        /\ editGroups[j].type = "deletion"

\* A single-change event has appended its operation to the most recent
\* group (the step of ProcessEditorContentChanges that regroups).
AppendedToRecent ==
    /\ nCalls' = nCalls + 1
    /\ lastCall'.kind = "process"
    /\ Len(lastCall'.ops) = 1
    /\ editGroups # <<>>
    /\ editGroups' # <<>>
    /\ Last(editGroups').operations
           = Append(Last(editGroups).operations, lastCall'.ops[1])

C12_Step ==
    LET op == lastCall'.ops[1]
        before == Last(editGroups)
        after == Last(editGroups')
        kept == SubSeq(before.insertedText, 1,
                       Len(before.insertedText) - Len(op.deletedText))
    IN  (/\ AppendedToRecent
         /\ op.type \in {"delete", "replace"}
         /\ op.deletedText # <<>>
         /\ IsSuffix(op.deletedText, before.insertedText))
        => /\ after.insertedText = kept \o op.text
           /\ after.deletedText = before.deletedText
           /\ Len(editGroups') = Len(editGroups)
           /\ (after.insertedText = <<>> /\ after.deletedText = <<>>)
                  => after.type = "insertion"

\* C12: a delete, or the delete half of a replace, whose deleted text is a
\* suffix of the group's inserted text takes that suffix off insertedText and
\* adds nothing to deletedText; the group stays in the history, and with both
\* texts empty its type is 'insertion'.
C12_SuffixDeleteCancels == [][C12_Step]_vars

\* C12, its example: a group of an insert of s and a delete of exactly s,
\* kept with both net texts empty.
C12_Witness ==
    /\ editGroups # <<>>
    /\ LET g == Last(editGroups)
       IN  /\ Len(g.operations) = 2
           /\ g.operations[1].type = "insert"
           /\ g.operations[2].type = "delete"
           /\ g.operations[2].deletedText = g.operations[1].text
           /\ g.type = "insertion"
           /\ g.insertedText = <<>>
           /\ g.deletedText = <<>>

\* C13: a group all of whose operations are inserts holds them in timestamp
\* order, its insertedText is their texts concatenated in that order, its
\* deletedText is empty and its type is 'insertion'.
C13_InsertsConcatenate ==
    \A i \in 1..Len(editGroups) :
        LET g == editGroups[i]
            ops == g.operations
        IN  (\A k \in 1..Len(ops) : ops[k].type = "insert")
            => /\ \A k \in 1..(Len(ops) - 1) :
                      ops[k].timestamp <= ops[k + 1].timestamp
               /\ g.insertedText = Concat([k \in 1..Len(ops) |-> ops[k].text])
               /\ g.deletedText = <<>>
               /\ g.type = "insertion"

\* C13, its example: 'a' typed and 'b' typed 500 ms later make one group
\* with insertedText 'ab'.
C13_Witness ==
    \E i \in 1..Len(editGroups) :
        LET g == editGroups[i]
        IN  /\ Len(g.operations) = 2
            /\ g.operations[1].type = "insert"
            /\ g.operations[2].type = "insert"
            /\ g.operations[2].timestamp - g.operations[1].timestamp = 500
            /\ g.insertedText = <<"a", "b">>
            /\ g.operations[2] = lastCall.ops[1]
            /\ g.operations # BurstOperations

\* C14: every group of the history holds at least one operation.
C14_GroupsNonEmpty ==
    \A i \in 1..Len(editGroups) : Len(editGroups[i].operations) >= 1

\* C14: a history of two groups, the last made by the event just processed.
C14_Witness ==
    /\ Len(editGroups) = 2
    /\ lastCall.kind = "process"
    /\ Last(editGroups).operations = lastCall.ops

\* C15: clearHistory leaves an empty history (getEditGroups empty,
\* getMostRecentEditGroup null) and does not change the previous-content
\* snapshot or maxHistorySize; the event processed right after it starts
\* the history anew, its first operation alone in the first group.
C15_Step ==
    /\ (nCalls' = nCalls + 1 /\ lastCall'.kind = "clearHistory")
       => /\ editGroups' = <<>>
          /\ GetMostRecentEditGroup(editGroups') = NullGroup
          /\ previousModelContent' = previousModelContent
          /\ maxHistorySize' = maxHistorySize
    /\ (nCalls' = nCalls + 1 /\ lastCall.kind = "clearHistory"
            /\ lastCall'.kind = "process")
       => /\ editGroups' # <<>>
          /\ \A i \in 1..Len(editGroups') :
                 \A k \in 1..Len(editGroups'[i].operations) :
                     editGroups'[i].operations[k].timestamp = now'
          /\ Len(editGroups') = Len(lastCall'.ops)
                 => editGroups'[1].operations = <<lastCall'.ops[1]>>

C15_ClearHistory == [][C15_Step]_vars

\* C15: the history just cleared, after edits that gave the tracker a
\* snapshot other than the initial document.
C15_Witness ==
    /\ lastCall.kind = "clearHistory"
    /\ editGroups = <<>>
    /\ GetMostRecentEditGroup(editGroups) = NullGroup
    /\ previousModelContent # InitialContent
    /\ previousModelContent = modelContent

\* C19: the groups of the history are in chronological order: each group
\* starts no later than it ends, and ends no later than the next one starts.
C19_Chronological ==
    /\ \A i \in 1..Len(editGroups) :
           editGroups[i].startTime <= editGroups[i].endTime
    /\ \A i \in 1..(Len(editGroups) - 1) :
           editGroups[i].endTime <= editGroups[i + 1].startTime

\* a comes before b in the document: by line, then by column.
C20_Before(a, b) ==
    \/ a.range.startLineNumber < b.range.startLineNumber
    \/ /\ a.range.startLineNumber = b.range.startLineNumber
       /\ a.range.startColumn < b.range.startColumn

RECURSIVE C20_InDocumentOrder(_)
\* The deleted texts of ops, those earlier in the document first and those
\* at one position in the order of deletion.
C20_InDocumentOrder(ops) ==
    IF ops = <<>> THEN <<>>
    ELSE LET k == CHOOSE i \in 1..Len(ops) :
                      /\ \A j \in 1..Len(ops) : ~C20_Before(ops[j], ops[i])
                      /\ \A j \in 1..(i - 1) : C20_Before(ops[i], ops[j])
                                                  \/ C20_Before(ops[j], ops[i])
         IN  ops[k].deletedText
                 \o C20_InDocumentOrder([i \in 1..(Len(ops) - 1) |->
                                            IF i < k THEN ops[i] ELSE ops[i + 1]])

\* C20: a group that only deletes original text has as deletedText the
\* removed pieces in document order, by line and then by column.
C20_DeletedTextInDocumentOrder ==
    \A i \in 1..Len(editGroups) :
        LET g == editGroups[i]
        IN  (\A k \in 1..Len(g.operations) : g.operations[k].type = "delete")
            => g.deletedText = C20_InDocumentOrder(g.operations)

\* C21: an operation is an 'insert' iff its change replaces nothing by some
\* text, a 'delete' iff it replaces something by nothing, and a 'replace' iff
\* it replaces something by some text.
C21_OperationTypes ==
    lastCall.kind = "process" =>
        \A i \in 1..Len(lastCall.ops) :
            LET op == lastCall.ops[i]
                change == lastCall.changes[i]
            IN  /\ op.type = "insert"
                       <=> (change.rangeLength = 0 /\ change.text # <<>>)
                /\ op.type = "delete"
                       <=> (change.rangeLength > 0 /\ change.text = <<>>)
                /\ op.type = "replace"
                       <=> (change.rangeLength > 0 /\ change.text # <<>>)

\* The range lies outside the snapshot by its lines.
C23_LineOutOfBounds(range, snapshot) ==
    \/ range.startLineNumber > Len(SplitLines(snapshot))
    \/ range.endLineNumber > Len(SplitLines(snapshot))
    \/ range.startLineNumber < 1

\* The range lies outside the snapshot, by its lines or by its columns.
C23_OutsideSnapshot(range, snapshot) ==
    \/ C23_LineOutOfBounds(range, snapshot)
    \/ range.endColumn - 1 > Len(SplitLines(snapshot)[range.endLineNumber])
    \/ range.startColumn - 1 > Len(SplitLines(snapshot)[range.startLineNumber])

\* C23: a delete or replace whose range has a line outside the snapshot gets
\* deletedText ''; on one line of the snapshot its columns are clamped to the
\* line; its operation is in a group of the history after the call and the
\* snapshot is the editor's content.
C23_Step ==
    (nCalls' = nCalls + 1 /\ lastCall'.kind = "process")
    => /\ Len(lastCall'.ops) = Len(lastCall'.changes)
       /\ previousModelContent' = modelContent'
       /\ \A i \in 1..Len(lastCall'.ops) :
              LET op == lastCall'.ops[i]
                  range == lastCall'.changes[i].range
                  lines == SplitLines(previousModelContent)
              IN  (/\ lastCall'.changes[i].rangeLength > 0
                   /\ C23_OutsideSnapshot(range, previousModelContent))
                  => /\ op.range = range
                     /\ C23_LineOutOfBounds(range, previousModelContent)
                            => op.deletedText = <<>>
                     /\ (~C23_LineOutOfBounds(range, previousModelContent)
                            /\ range.startLineNumber = range.endLineNumber
                            /\ range.startColumn <= range.endColumn)
                         => LET line == lines[range.startLineNumber]
                            IN  op.deletedText
                                  = SubSeq(line, Min(range.startColumn, Len(line) + 1),
                                           Min(range.endColumn - 1, Len(line)))
                     /\ \E g \in 1..Len(editGroups') :
                            \E k \in 1..Len(editGroups'[g].operations) :
                                editGroups'[g].operations[k] = op

C23_MalformedRangesDegrade == [][C23_Step]_vars

\* C29: after a call made with a model the snapshot is the editor's content,
\* and every operation's deletedText was read from the snapshot of before
\* the event: with the snapshot up to date, it is the text the editor
\* removed for that change.  Without a model the call changes neither the
\* history nor the snapshot.
C29_Step ==
    /\ (nCalls' = nCalls + 1 /\ lastCall'.kind = "process")
       => /\ previousModelContent' = modelContent'
          /\ \A i \in 1..Len(lastCall'.ops) :
                 LET op == lastCall'.ops[i]
                     change == lastCall'.changes[i]
                 IN  /\ op.deletedText
                           = IF change.rangeLength > 0
                             THEN ExtractTextFromRange(change.range,
                                                       previousModelContent)
                             ELSE <<>>
                     /\ (/\ previousModelContent = modelContent
                          /\ change \notin MalformedChanges(modelContent))
                        => op.deletedText
                             = SubSeq(modelContent, change.rangeOffset + 1,
                                      change.rangeOffset + change.rangeLength)
    /\ (nCalls' = nCalls + 1 /\ lastCall'.kind = "processWithoutModel")
       => UNCHANGED <<editGroups, previousModelContent>>

C29_SnapshotDiscipline == [][C29_Step]_vars

\* C29: two cursors have deleted a character each in one event, and the
\* snapshot is the content after it.
C29_Witness ==
    /\ lastCall.kind = "process"
    /\ Len(lastCall.ops) = 2
    /\ lastCall.ops[1].deletedText # <<>>
    /\ lastCall.ops[2].deletedText = <<"a">>
    /\ previousModelContent = modelContent

\* C22: when an event leaves more than maxHistorySize = m >= 1 groups, the
\* history after the call is exactly the m most recent of them, unchanged
\* and in order, the trim being applied once to the groups of the whole event.
C22_Step ==
    (/\ nCalls' = nCalls + 1
     /\ lastCall'.kind = "process"
     /\ maxHistorySize >= 1
     /\ Len(GroupedHistory(editGroups, lastCall'.ops)) > maxHistorySize)
    => LET grouped == GroupedHistory(editGroups, lastCall'.ops)
           m == maxHistorySize
       IN  /\ Len(editGroups') = m
           /\ \A i \in 1..m : editGroups'[i] = grouped[Len(grouped) - m + i]

C28_Step ==
    /\ (nCalls' = nCalls + 1 /\ lastCall'.kind = "process")
       => LET untouched ==
                SelectSeq(editGroups',
                          LAMBDA g : /\ g.endTime # now'
                                     /\ \A k \in 1..Len(g.operations) :
                                            g.operations[k].timestamp # now')
          IN  /\ \/ IsSuffix(untouched, editGroups)
                 \/ IsSuffix(untouched, Front(editGroups))
              /\ (Len(editGroups') # maxHistorySize /\ editGroups # <<>>)
                     => Len(untouched) >= Len(editGroups) - 1
              /\ \A i \in 1..Len(untouched) : editGroups'[i] = untouched[i]
    /\ (nCalls' = nCalls + 1
           /\ lastCall'.kind \in {"getEditGroups", "getMostRecentEditGroup",
                                  "getRecentChangesSummary"})
       => UNCHANGED <<editGroups, previousModelContent, maxHistorySize>>

C28_EarlierGroupsImmutable == [][C28_Step]_vars

\* C28: an event has been processed on a history of two groups, both still
\* in the history with the times they had.
C28_Witness ==
    /\ lastCall.kind = "process"
    /\ Len(editGroups) >= 2
    /\ editGroups[1].endTime < now
    /\ editGroups[2].endTime < now
    /\ \A k \in 1..Len(lastCall.ops) : lastCall.ops[k].timestamp = now

-----------------------------------------------------------------------------
(* The AST builder (latexAST.ts)                                           *)
(* Nodes live in a heap, a sequence of records; a node's identity is its   *)
(* index, NullNode is null and UnsetParent a parent never assigned.        *)
(* hasContent and hasArgs say that the field is an array.  Every node the  *)
(* parser makes has a location; start and end are its offsets.             *)

NullNode == 0
UnsetParent == -1

SectionKinds == {"section", "subsection", "subsubsection"}

MakeNode(kind, name, args, hasArgs, content, hasContent, start, end, command) ==
    [kind |-> kind, name |-> name, args |-> args, hasArgs |-> hasArgs,
     content |-> content, hasContent |-> hasContent,
     start |-> start, end |-> end, parent |-> UnsetParent, command |-> command]

PushContent(heap, id, child) ==
    [heap EXCEPT ![id].content = Append(@, child)]

\* MakeSectionNode with the kind left as the command's.
MakeSectionNodeAsCommand(heap, kind, cmd) ==
    MakeNode("command", heap[cmd].name, heap[cmd].args, TRUE, <<>>, TRUE,
             heap[cmd].start, heap[cmd].end, cmd)

\* The SectionNode literal built for a heading command.
MakeSectionNode(heap, kind, cmd) ==
    MakeNode(kind, "", heap[cmd].args, TRUE, <<>>, TRUE,
             heap[cmd].start, heap[cmd].end, cmd)

\* The three guarded pushes that close open headings; st is the loop state
\* [heap, result, section, subsection, subsubsection, thrown].
CloseSubsubsection(st) ==
    IF st.section # NullNode /\ st.subsection # NullNode
       /\ st.subsubsection # NullNode
    THEN [st EXCEPT !.heap = PushContent(@, st.subsection, st.subsubsection)]
    ELSE st

CloseSubsection(st) ==
    IF st.section # NullNode /\ st.subsection # NullNode
    THEN [st EXCEPT !.heap = PushContent(@, st.section, st.subsection)]
    ELSE st

CloseSection(st) ==
    IF st.section # NullNode
    THEN [st EXCEPT !.result = Append(@, st.section)]
    ELSE st

\* PushToInnermost ignoring the open headings.
PushToResult(st, n) == [st EXCEPT !.result = Append(@, n)]

\* A node that is no heading goes to the innermost open heading, or to the
\* result.
PushToInnermost(st, n) ==
    IF st.subsubsection # NullNode
    THEN [st EXCEPT !.heap = PushContent(@, st.subsubsection, n)]
    ELSE IF st.subsection # NullNode
    THEN [st EXCEPT !.heap = PushContent(@, st.subsection, n)]
    ELSE IF st.section # NullNode
    THEN [st EXCEPT !.heap = PushContent(@, st.section, n)]
    ELSE [st EXCEPT !.result = Append(@, n)]

\* A heading command opens a new node of its kind.
OpenHeading(st, kind, cmd) ==
    LET id == Len(st.heap) + 1
        heap == Append(st.heap, MakeSectionNode(st.heap, kind, cmd))
    IN  IF kind = "section"
        THEN [st EXCEPT !.heap = heap, !.section = id,
                        !.subsection = NullNode, !.subsubsection = NullNode]
        ELSE IF kind = "subsection"
        THEN [st EXCEPT !.heap = heap, !.subsection = id,
                        !.subsubsection = NullNode]
        ELSE [st EXCEPT !.heap = heap, !.subsubsection = id]

\* How the build scopes `let node` of the for loop: block scoped, the read
\* of node after the loop raises a ReferenceError; compiled to a function
\* scoped var, it reads the last node of the loop.
LetScopings == {"block", "function"}

RECURSIVE RestructureNodes(_, _, _)
RECURSIVE RestructureLoop(_, _, _)

\* The for loop of restructureNodes over the remaining nodes.
RestructureLoop(state, nodes, scoping) ==
    LET Loop(st) ==
          IF nodes = <<>> \/ st.thrown THEN st
          ELSE LET Iterate(next) == RestructureLoop(next, Tail(nodes), scoping)
                   n == Head(nodes)
                   node == st.heap[n]
                   next ==
                     IF node.kind = "command"
                     THEN IF node.name = "section"
                          THEN OpenHeading(
                                 CloseSection(CloseSubsection(CloseSubsubsection(st))),
                                 "section", n)
                          ELSE IF node.name = "subsection"
                          THEN OpenHeading(CloseSubsection(CloseSubsubsection(st)),
                                           "subsection", n)
                          ELSE IF node.name = "subsubsection"
                          THEN OpenHeading(CloseSubsubsection(st), "subsubsection", n)
                          ELSE PushToInnermost(st, n)
                     ELSE IF node.hasContent
                     THEN LET rec == RestructureNodes(st.heap, node.content, scoping)
                          IN  IF rec.thrown
                              THEN [st EXCEPT !.heap = rec.heap, !.thrown = TRUE]
                              ELSE PushToInnermost(
                                     [st EXCEPT !.heap =
                                         [rec.heap EXCEPT ![n].content = rec.result]],
                                     n)
                     ELSE PushToInnermost(st, n)
               IN  ByValue(Iterate, next)
    IN  ByValue(Loop, state)

\* restructureNodes(nodes): [heap, result, thrown].
RestructureNodes(heap, nodes, scoping) ==
    LET AfterLoop(looped) ==
          LET allOpen == /\ looped.section # NullNode
                         /\ looped.subsection # NullNode
                         /\ looped.subsubsection # NullNode
              flushed ==
                  IF allOpen
                  THEN IF scoping = "block"
                       THEN [looped EXCEPT !.thrown = TRUE]
                       ELSE [looped EXCEPT !.heap =
                                PushContent(@, looped.subsubsection, Last(nodes))]
                  ELSE looped
              Return(closed) ==
                  [heap |-> closed.heap, result |-> closed.result,
                   thrown |-> closed.thrown]
          IN  ByValue(Return, IF flushed.thrown THEN flushed
                              ELSE CloseSection(CloseSubsection(flushed)))
    IN  ByValue(AfterLoop,
                RestructureLoop(
                    [heap |-> heap, result |-> <<>>, section |-> NullNode,
                     subsection |-> NullNode, subsubsection |-> NullNode,
                     thrown |-> FALSE],
                    nodes, scoping))

RECURSIVE UpdateSectionLocations(_, _)
\* updateSectionLocations(nodes): the heap with the heading spans recomputed.
UpdateSectionLocations(heap, nodes) ==
    IF nodes = <<>> THEN heap
    ELSE LET n == Head(nodes)
             Rest(updated) == UpdateSectionLocations(updated, Tail(nodes))
             Locate(inner) ==
               LET node == inner[n]
               IN  IF node.kind \in SectionKinds /\ node.hasContent
                      /\ Len(node.content) > 0
                   THEN [inner EXCEPT ![n].start = inner[node.content[1]].start,
                                      ![n].end = inner[Last(node.content)].end]
                   ELSE inner
             Children(h) == IF h[n].hasContent
                            THEN UpdateSectionLocations(h, h[n].content)
                            ELSE h
         IN  ByValue(Rest, ByValue(Locate, ByValue(Children, heap)))

RECURSIVE AddParentReferences(_, _, _)
RECURSIVE AddParentReferencesAll(_, _, _)

\* addParentReferences without the loop over node.args.
AddParentReferencesContentOnly(heap, n, parent) ==
    IF n = NullNode THEN heap
    ELSE LET Content(set) ==
                 IF set[n].hasContent
                 THEN AddParentReferencesAll(set, set[n].content, n)
                 ELSE set
         IN  ByValue(Content, [heap EXCEPT ![n].parent = parent])

\* The forEach loops of addParentReferences.
AddParentReferencesAll(heap, nodes, parent) ==
    IF nodes = <<>> THEN heap
    ELSE LET Rest(h) == AddParentReferencesAll(h, Tail(nodes), parent)
         IN  ByValue(Rest, AddParentReferences(heap, Head(nodes), parent))

\* addParentReferences(node, parent)
AddParentReferences(heap, n, parent) ==
    IF n = NullNode THEN heap
    ELSE LET Args(set) == IF set[n].hasArgs
                          THEN AddParentReferencesAll(set, set[n].args, n)
                          ELSE set
             Content(withArgs) ==
                 IF withArgs[n].hasContent
                 THEN AddParentReferencesAll(withArgs, withArgs[n].content, n)
                 ELSE withArgs
         IN  ByValue(Content, ByValue(Args, [heap EXCEPT ![n].parent = parent]))

\* parseLatex on the parser's output (heap, content): the AST, or thrown.
ParseLatex(heap, content, scoping) ==
    LET Finish(restructured) ==
          LET Parents(located) ==
                AddParentReferencesAll(located, restructured.result, NullNode)
          IN  IF restructured.thrown
              THEN [thrown |-> TRUE, heap |-> <<>>, content |-> <<>>]
              ELSE [thrown |-> FALSE,
                    heap |-> ByValue(Parents,
                                     UpdateSectionLocations(restructured.heap,
                                                            restructured.result)),
                    content |-> restructured.result]
    IN  ByValue(Finish, RestructureNodes(heap, content, scoping))

RECURSIVE FindNodeAtCursor(_, _, _)
RECURSIVE FindFirstAtCursor(_, _, _)

\* The for loops of findNodeAtCursor and updateCurrentNode: the first child
\* for which findNodeAtCursor returns a node.
FindFirstAtCursor(heap, nodes, offset) ==
    IF nodes = <<>> THEN NullNode
    ELSE LET found == FindNodeAtCursor(heap, Head(nodes), offset)
         IN  IF found # NullNode THEN found
             ELSE FindFirstAtCursor(heap, Tail(nodes), offset)

\* findNodeAtCursor(node) for the cursor at offset.
FindNodeAtCursor(heap, n, offset) ==
    IF n = NullNode THEN NullNode
    ELSE IF heap[n].start <= offset /\ offset < heap[n].end
    THEN LET inContent == IF heap[n].hasContent
                          THEN FindFirstAtCursor(heap, heap[n].content, offset)
                          ELSE NullNode
             inArgs == IF heap[n].hasArgs
                       THEN FindFirstAtCursor(heap, heap[n].args, offset)
                       ELSE NullNode
         IN  IF inContent # NullNode THEN inContent
             ELSE IF inArgs # NullNode THEN inArgs
             ELSE n
    ELSE NullNode

-----------------------------------------------------------------------------
(* The parser's output (latex-utensils, an input of the AST builder)       *)

MaxNodes == 3
MaxPasses == 2
NoCursor == -1

\* The top-level constructs of a document: the three heading commands, a
\* text run, another command (\textbf{t}) and environments whose bodies are
\* sequences of headings and text.
ItemKinds == {"S", "SS", "SSS", "T", "B"}
EnvBodies == {<<"T">>, <<"S", "T">>}

Items ==
    {[k |-> x, body |-> <<>>] : x \in ItemKinds}
    \cup {[k |-> "E", body |-> b] : b \in EnvBodies}

Shapes == UNION {[1..n -> Items] : n \in 0..MaxNodes}

CommandName(k) ==
    IF k = "S" THEN "section"
    ELSE IF k = "SS" THEN "subsection"
    ELSE IF k = "SSS" THEN "subsubsection"
    ELSE "textbf"

RECURSIVE BuildItems(_, _)
\* The nodes the parser makes for the items, laid out from st.off on: a text
\* run is one offset wide; a command \name{t} is four wide, its argument
\* group the last three and the group's text the middle one; an environment
\* is its body with one offset for \begin and one for \end.
BuildItems(st, items) ==
    IF items = <<>> THEN st
    ELSE LET Rest(built) == BuildItems(built, Tail(items))
             it == Head(items)
             o == st.off
             id == Len(st.heap) + 1
             built ==
               IF it.k = "T"
               THEN [heap |-> Append(st.heap,
                                MakeNode("text.string", "", <<>>, FALSE, <<>>, FALSE,
                                         o, o + 1, NullNode)),
                     ids |-> Append(st.ids, id),
                     off |-> o + 1]
               ELSE IF it.k = "E"
               THEN LET inner == BuildItems(
                                   [heap |-> st.heap, ids |-> <<>>, off |-> o + 1],
                                   [i \in 1..Len(it.body) |->
                                       [k |-> it.body[i], body |-> <<>>]])
                    IN  [heap |-> Append(inner.heap,
                                    MakeNode("env", "center", <<>>, TRUE,
                                             inner.ids, TRUE,
                                             o, inner.off + 1, NullNode)),
                         ids |-> Append(st.ids, Len(inner.heap) + 1),
                         off |-> inner.off + 1]
               ELSE [heap |-> st.heap \o
                        <<MakeNode("text.string", "", <<>>, FALSE, <<>>, FALSE,
                                   o + 2, o + 3, NullNode),
                          MakeNode("arg.group", "", <<>>, FALSE, <<id>>, TRUE,
                                   o + 1, o + 4, NullNode),
                          MakeNode("command", CommandName(it.k), <<id + 1>>, TRUE,
                                   <<>>, FALSE, o, o + 4, NullNode)>>,
                     ids |-> Append(st.ids, id + 2),
                     off |-> o + 4]
         IN  ByValue(Rest, built)

\* latexParser.parse(content).content for the document of shape d.
ParserOutput(d) ==
    BuildItems([heap |-> <<>>, ids |-> <<>>, off |-> 0], d)

-----------------------------------------------------------------------------
(* The context provider: documentAST and currentNode                       *)

UndefinedAST == [defined |-> FALSE, heap |-> <<>>, content |-> <<>>]

\* updateCurrentNode's result for the AST and the cursor given.
CurrentNodeFor(ast, offset) ==
    FindFirstAtCursor(ast.heap, ast.content, offset)

ASTIdle ==
    /\ doc = <<>>
    /\ documentAST = UndefinedAST
    /\ cursorOffset = NoCursor
    /\ currentNode = NullNode
    /\ lastParse = "none"

WorkIdle == work = [heap |-> <<>>, content |-> <<>>, passes |-> 0, thrown |-> FALSE]

\* The provider as constructed, for an editor opened on some document.
ASTInit ==
    /\ doc \in Shapes
    /\ documentAST = UndefinedAST
    /\ cursorOffset = NoCursor
    /\ currentNode = NullNode
    /\ lastParse = "none"

\* updateDocumentAST, and the effect on [cursorInfo, documentAST] that runs
\* updateCurrentNode when the AST has been replaced.
UpdateDocumentAST ==
    /\ \E scoping \in LetScopings :
         \E out \in {ParserOutput(doc)} :
         \E ast \in {ParseLatex(out.heap, out.ids, scoping)} :
         LET defined == [defined |-> TRUE, heap |-> ast.heap, content |-> ast.content]
         IN  IF ast.thrown
             THEN /\ lastParse' = "threw"
                  /\ UNCHANGED <<documentAST, currentNode>>
             ELSE /\ lastParse' = "ok"
                  /\ documentAST' = defined
                  /\ currentNode' = IF cursorOffset = NoCursor THEN currentNode
                                    ELSE CurrentNodeFor(defined, cursorOffset)
    /\ UNCHANGED <<doc, cursorOffset, work, notAST>>

\* updateCursorInfo, and the effect that runs updateCurrentNode: the cursor
\* starts at offset 0 and moves one offset at a time through the document.
UpdateCursorInfo ==
    /\ \E offset \in 0..ParserOutput(doc).off :
         /\ IF cursorOffset = NoCursor THEN offset = 0
            ELSE offset \in {cursorOffset - 1, cursorOffset + 1}
         /\ cursorOffset' = offset
         /\ currentNode' = IF documentAST.defined
                           THEN CurrentNodeFor(documentAST, offset)
                           ELSE currentNode
    /\ UNCHANGED <<doc, documentAST, lastParse, work, notAST>>

ASTNext ==
    \/ UpdateDocumentAST
    \/ UpdateCursorInfo


-----------------------------------------------------------------------------
(* restructureNodes applied repeatedly                                     *)

RestructureInit ==
    /\ \E d \in Shapes :
         work = [heap |-> ParserOutput(d).heap, content |-> ParserOutput(d).ids,
                 passes |-> 0, thrown |-> FALSE]

\* One more application of restructureNodes to the sequence it returned.
Restructure ==
    /\ work.passes < MaxPasses
    /\ ~work.thrown
    /\ \E scoping \in LetScopings :
         \E r \in {RestructureNodes(work.heap, work.content, scoping)} :
             work' = [heap |-> r.heap, content |-> r.result,
                      passes |-> work.passes + 1, thrown |-> r.thrown]
    /\ UNCHANGED <<doc, documentAST, cursorOffset, currentNode, lastParse, notAST>>


-----------------------------------------------------------------------------
(* Properties of the AST                                                   *)

Range(s) == {s[i] : i \in 1..Len(s)}

\* The nodes in n's content and args arrays.
ChildrenOf(heap, n) ==
    (IF heap[n].hasContent THEN Range(heap[n].content) ELSE {})
    \cup (IF heap[n].hasArgs THEN Range(heap[n].args) ELSE {})

RECURSIVE ReachableFrom(_, _, _)
\* The nodes reachable from the frontier through content or args.
ReachableFrom(heap, frontier, seen) ==
    IF frontier = {} THEN seen
    ELSE LET Step(all) ==
               ReachableFrom(heap,
                             UNION {ChildrenOf(heap, n) : n \in frontier} \ all,
                             all)
         IN  ByValue(Step, seen \cup frontier)

\* The nodes of the tree whose top level is content.
NodesOf(ast) == ReachableFrom(ast.heap, Range(ast.content), {})

SpanContains(heap, n, offset) ==
    heap[n].start <= offset /\ offset < heap[n].end

\* C5: in the AST parseLatex returns, every node's start is at most its end
\* and every child in a node's content or args has its span within the
\* node's span, section nodes with recomputed spans included.
C5_ChildSpansWithinParent ==
    documentAST.defined =>
        \A n \in NodesOf(documentAST) :
            LET heap == documentAST.heap
            IN  /\ heap[n].start <= heap[n].end
                /\ \A c \in ChildrenOf(heap, n) :
                       /\ heap[n].start <= heap[c].start
                       /\ heap[c].end <= heap[n].end

\* C6: in the AST parseLatex returns, a top-level node's parent is null and
\* the parent of every other reachable node is the node whose content or
\* args holds it.
C6_ParentReferences ==
    documentAST.defined =>
        LET heap == documentAST.heap
        IN  /\ \A n \in Range(documentAST.content) : heap[n].parent = NullNode
            /\ \A n \in NodesOf(documentAST) :
                   \A c \in ChildrenOf(heap, n) : heap[c].parent = n

\* C6: an AST with a section that has a title argument and a content child.
C6_Witness ==
    /\ documentAST.defined
    /\ \E n \in NodesOf(documentAST) :
           /\ documentAST.heap[n].kind = "section"
           /\ documentAST.heap[n].args # <<>>
           /\ documentAST.heap[n].content # <<>>
           /\ \E g \in Range(documentAST.heap[n].args) :
                  documentAST.heap[g].content # <<>>

C7_Step ==
    (/\ work.passes >= 1
     /\ work'.passes = work.passes + 1
     /\ ~work'.thrown)
    => /\ work'.content = work.content
       /\ work'.heap = work.heap

\* C7: applying restructureNodes to a sequence it returned gives the same
\* nodes, nesting and order: the second pass changes nothing.
C7_RestructureIdempotent == [][C7_Step]_vars

\* C7: a second pass has returned on a section that holds a subsection with
\* a content child.
C7_Witness ==
    /\ work.passes = 2
    /\ ~work.thrown
    /\ \E s \in Range(work.content) :
           /\ work.heap[s].kind = "section"
           /\ \E ss \in Range(work.heap[s].content) :
                  /\ work.heap[ss].kind = "subsection"
                  /\ work.heap[ss].content # <<>>

RECURSIVE C17_InputsOf(_, _)
\* The input nodes a tree holds, in document order: a section node stands
\* for its heading command and is followed by the inputs in its content;
\* any other node is an input itself.
C17_InputsOf(heap, nodes) ==
    IF nodes = <<>> THEN <<>>
    ELSE LET n == Head(nodes)
         IN  (IF heap[n].kind \in SectionKinds
              THEN <<heap[n].command>> \o C17_InputsOf(heap, heap[n].content)
              ELSE <<n>>)
             \o C17_InputsOf(heap, Tail(nodes))

\* C17: restructureNodes applied to a flat sequence from the parser returns
\* normally, and the tree it returns holds every input node exactly once,
\* in document order.
C17_Step ==
    (work.passes = 0 /\ work'.passes = 1)
    => /\ ~work'.thrown
       /\ C17_InputsOf(work'.heap, work'.content) = work.content

C17_NoNodeLost == [][C17_Step]_vars

\* Where node n is after a pass: 0 for the returned sequence, or the nodes
\* whose content holds it.
C24_Where(heap, content, n) ==
    (IF \E i \in 1..Len(content) : content[i] = n THEN {0} ELSE {})
    \cup {c \in 1..Len(heap) : \E i \in 1..Len(heap[c].content) :
                                 heap[c].content[i] = n}

C24_IsHeading(heap, n) ==
    heap[n].kind = "command" /\ heap[n].name \in SectionKinds

\* The section nodes made for heading command h.
C24_SectionsOf(heap, h) ==
    {s \in 1..Len(heap) : heap[s].kind \in SectionKinds /\ heap[s].command = h}

\* C24: a heading command in the content of an environment becomes a section
\* node held by that environment only; the environment is placed as any
\* node that is no heading: in the section node of the heading before it,
\* next to the node before it otherwise; the node after it is placed next to
\* it, and a subsection after it goes into the section open before it.
C24_Step ==
    (work.passes = 0 /\ work'.passes = 1 /\ ~work'.thrown)
    => \A i \in 1..Len(work.content) :
          LET E == work.content[i]
              inner == work.heap[E].content
              where(n) == C24_Where(work'.heap, work'.content, n)
              sections(h) == C24_SectionsOf(work'.heap, h)
              before == {j \in 1..(i - 1) :
                            work.heap[work.content[j]].kind = "command"
                            /\ work.heap[work.content[j]].name = "section"}
          IN  work.heap[E].kind = "env"
              => /\ C17_InputsOf(work'.heap, work'.heap[E].content) = inner
                 /\ \A k \in 1..Len(inner) :
                        C24_IsHeading(work.heap, inner[k])
                        => \E s \in sections(inner[k]) :
                              /\ sections(inner[k]) = {s}
                              /\ work'.heap[s].kind = work.heap[inner[k]].name
                              /\ where(s) = {E}
                 /\ i > 1
                    => LET P == work.content[i - 1]
                       IN  IF C24_IsHeading(work.heap, P)
                           THEN \E s \in sections(P) : where(E) = {s}
                           ELSE where(E) = where(P)
                 /\ i < Len(work.content)
                    => LET X == work.content[i + 1]
                       IN  /\ ~C24_IsHeading(work.heap, X) => where(X) = where(E)
                           /\ (/\ C24_IsHeading(work.heap, X)
                               /\ work.heap[X].name = "subsection"
                               /\ before # {})
                              => LET S == work.content[
                                           CHOOSE j \in before :
                                               \A m \in before : m <= j]
                                 IN  \E s \in sections(S) : \E x \in sections(X) :
                                        where(x) = {s}

C8_InnermostNodeAtCursor ==
    (documentAST.defined /\ cursorOffset # NoCursor) =>
        LET heap == documentAST.heap
        IN  IF currentNode # NullNode
            THEN /\ SpanContains(heap, currentNode, cursorOffset)
                 /\ \A c \in ChildrenOf(heap, currentNode) :
                        ~SpanContains(heap, c, cursorOffset)
            ELSE \A n \in NodesOf(documentAST) :
                     ~SpanContains(heap, n, cursorOffset)

-----------------------------------------------------------------------------
(* compileLatex (the compiler module)                                      *)
(* A string is a sequence of tokens: a command name, a word, a piece of    *)
(* the HTML templates or a single character.  No token of the alphabet     *)
(* occurs inside or across other tokens, so the regular expressions and    *)
(* indexOf find on tokens what they find on characters.  Positions are     *)
(* token positions, counted from 1.                                        *)

Whitespace == {" ", "\n"}

RECURSIVE RemoveLatexCommentsFrom(_, _, _, _)
\* The while loop of removeLatexComments from position i on.
RemoveLatexCommentsFrom(source_, i, inComment, result) ==
    IF i > Len(source_) THEN result
    ELSE IF i < Len(source_) /\ source_[i] = "\\" /\ source_[i + 1] = "%"
    THEN RemoveLatexCommentsFrom(source_, i + 2, inComment,
                                 result \o <<"\\", "%">>)
    ELSE LET commented == inComment \/ source_[i] = "%"
         IN  IF source_[i] = "\n"
             THEN RemoveLatexCommentsFrom(source_, i + 1, FALSE,
                                          Append(result, "\n"))
             ELSE RemoveLatexCommentsFrom(
                      source_, i + 1, commented,
                      IF commented THEN result ELSE Append(result, source_[i]))

\* removeLatexComments(source)
RemoveLatexComments(source_) == RemoveLatexCommentsFrom(source_, 1, FALSE, <<>>)

RECURSIVE TrimStart(_)
TrimStart(s) ==
    IF s # <<>> /\ Head(s) \in Whitespace THEN TrimStart(Tail(s)) ELSE s

RECURSIVE TrimEnd(_)
TrimEnd(s) ==
    IF s # <<>> /\ Last(s) \in Whitespace THEN TrimEnd(Front(s)) ELSE s

\* String.prototype.trim
Trim(s) == TrimEnd(TrimStart(s))

\* Where \{(.*?)\} ends when it starts at position i: the first "}" after
\* the "{" at i with no line break before it; 0 when there is no match.
ClosingBrace(content, i) ==
    LET closers == {j \in (i + 1)..Len(content) :
                       /\ content[j] = "}"
                       /\ \A k \in (i + 1)..(j - 1) : content[k] \notin {"}", "\n"}}
    IN  IF i <= Len(content) /\ content[i] = "{" /\ closers # {}
        THEN CHOOSE j \in closers : TRUE
        ELSE 0

RECURSIVE HeadingMatches(_, _, _, _)
\* The exec loop of one heading regex, \<command>\{(.*?)\}, from position
\* i on: a HeadingInfo for every match.
HeadingMatches(content, command, level, i) ==
    IF i > Len(content) THEN <<>>
    ELSE LET close == IF content[i] = command
                      THEN ClosingBrace(content, i + 1)
                      ELSE 0
         IN  IF close # 0
             THEN <<[text |-> SubSeq(content, i + 2, close - 1),
                     level |-> level, number |-> <<>>, index |-> i]>>
                  \o HeadingMatches(content, command, level, close + 1)
             ELSE HeadingMatches(content, command, level, i + 1)

RECURSIVE InsertByIndex(_, _)
InsertByIndex(sorted, h) ==
    IF sorted = <<>> THEN <<h>>
    ELSE IF Last(sorted).index <= h.index THEN Append(sorted, h)
    ELSE Append(InsertByIndex(Front(sorted), h), Last(sorted))

RECURSIVE SortByIndex(_)
\* headings.sort((a, b) => a.index - b.index), a stable sort.
SortByIndex(headings) ==
    IF headings = <<>> THEN <<>>
    ELSE InsertByIndex(SortByIndex(Front(headings)), Last(headings))

\* findLastIndexBefore(headings, currentIndex, level); 0 when not found.
FindLastIndexBefore(headings, currentIndex, level) ==
    LET before == {i \in 1..(currentIndex - 1) : headings[i].level = level}
    IN  IF before = {} THEN 0
        ELSE CHOOSE i \in before : \A j \in before : j <= i

\* The number given to heading i; st holds the headings, those before i
\* numbered, and the three counters.
NumberHeading(st, i) ==
    LET headings == st.headings
        level == headings[i].level
        parentSection == FindLastIndexBefore(headings, i, 1)
        parentSubsection == FindLastIndexBefore(headings, i, 2)
        Numbered(number, section, subsection, subsubsection) ==
            [headings |-> [headings EXCEPT ![i].number = number],
             section |-> section, subsection |-> subsection,
             subsubsection |-> subsubsection]
    IN  IF level = 1
        THEN Numbered(<<ToString(st.section + 1)>>, st.section + 1, 0, 0)
        ELSE IF level = 2
        THEN IF parentSection > 0
             THEN LET count ==
                        IF i > 1 /\ headings[i - 1].level = 2
                        THEN IF FindLastIndexBefore(headings, i - 1, 1) = parentSection
                             THEN st.subsection + 1
                             ELSE 1
                        ELSE 1
                  IN  Numbered(headings[parentSection].number
                                  \o <<".", ToString(count)>>,
                               st.section, count, 0)
             ELSE Numbered(<<"1", ".", ToString(st.subsection + 1)>>,
                           st.section, st.subsection + 1, 0)
        ELSE IF parentSubsection > 0
             THEN LET count ==
                        IF i > 1 /\ headings[i - 1].level = 3
                        THEN IF FindLastIndexBefore(headings, i - 1, 2)
                                    = parentSubsection
                             THEN st.subsubsection + 1
                             ELSE 1
                        ELSE 1
                  IN  Numbered(headings[parentSubsection].number
                                  \o <<".", ToString(count)>>,
                               st.section, st.subsection, count)
             ELSE IF parentSection > 0
             THEN Numbered(headings[parentSection].number
                              \o <<".", "1", ".", ToString(st.subsubsection + 1)>>,
                           st.section, st.subsection, st.subsubsection + 1)
             ELSE Numbered(<<"1", ".", "1", ".", ToString(st.subsubsection + 1)>>,
                           st.section, st.subsection, st.subsubsection + 1)

RECURSIVE NumberHeadings(_, _)
\* The forEach of analyzeDocumentStructure's second pass from heading i on.
NumberHeadings(st, i) ==
    IF i > Len(st.headings) THEN st.headings
    ELSE LET Rest(next) == NumberHeadings(next, i + 1)
         IN  ByValue(Rest, NumberHeading(st, i))

\* analyzeDocumentStructure(content)
AnalyzeDocumentStructure(content) ==
    LET Number(sorted) ==
            NumberHeadings([headings |-> sorted, section |-> 0,
                            subsection |-> 0, subsubsection |-> 0], 1)
    IN  ByValue(Number,
                SortByIndex(HeadingMatches(content, "\\section", 1, 1)
                            \o HeadingMatches(content, "\\subsection", 2, 1)
                            \o HeadingMatches(content, "\\subsubsection", 3, 1)))

\* String.prototype.indexOf(pattern, from), positions from 1; 0 for -1.
IndexOf(content, pattern, from) ==
    LET found == {i \in from..(Len(content) - Len(pattern) + 1) :
                     SubSeq(content, i, i + Len(pattern) - 1) = pattern}
    IN  IF found = {} THEN 0
        ELSE CHOOSE i \in found : \A j \in found : i <= j

HeadingCommand(level) ==
    IF level = 1 THEN "\\section"
    ELSE IF level = 2 THEN "\\subsection"
    ELSE "\\subsubsection"

\* What a token leaves in a heading's id: white space becomes "-", letters
\* are lowered, a command keeps its letters, other characters are dropped.
IdOfToken(t) ==
    IF t \in Whitespace THEN <<"-">>
    ELSE IF t \in {"{", "}", "%", "\\", "."} THEN <<>>
    ELSE IF t = "A" THEN <<"a">>
    ELSE IF t = "B" THEN <<"b">>
    ELSE IF t = "C" THEN <<"c">>
    ELSE IF t = "D" THEN <<"d">>
    ELSE IF t = "\\section" THEN <<"section">>
    ELSE IF t = "\\subsection" THEN <<"subsection">>
    ELSE IF t = "\\subsubsection" THEN <<"subsubsection">>
    ELSE <<t>>

RECURSIVE HeadingId(_, _)
\* text.replace(/\s+/g, "-").replace(/[^\w-]/g, "").toLowerCase(); afterSpace
\* says that the token before was white space.
HeadingId(text, afterSpace) ==
    IF text = <<>> THEN <<>>
    ELSE IF Head(text) \in Whitespace /\ afterSpace
    THEN HeadingId(Tail(text), TRUE)
    ELSE IdOfToken(Head(text)) \o HeadingId(Tail(text), Head(text) \in Whitespace)

\* htmlTag of processSectionsWithStructure.
HeadingHtml(heading) ==
    <<"<h" \o ToString(heading.level) \o " id=\"">>
    \o HeadingId(heading.text, FALSE)
    \o <<"\">", "<span class=\"section-number\">">>
    \o heading.number
    \o (IF heading.level = 1 THEN <<".">> ELSE <<>>)
    \o <<"</span>", " ">>
    \o heading.text
    \o <<"</h" \o ToString(heading.level) \o ">">>

RECURSIVE ReplaceHeadings(_, _, _, _)
\* The for loop of processSectionsWithStructure over the headings left, and
\* the remaining content added after it.
ReplaceHeadings(content, headings, result, lastIndex) ==
    IF headings = <<>>
    THEN result \o SubSeq(content, lastIndex, Len(content))
    ELSE LET heading == Head(headings)
             tagPattern == <<HeadingCommand(heading.level), "{">>
                           \o heading.text \o <<"}">>
             tagIndex == IndexOf(content, tagPattern, lastIndex)
         IN  IF tagIndex = 0
             THEN ReplaceHeadings(content, Tail(headings), result, lastIndex)
             ELSE ReplaceHeadings(
                      content, Tail(headings),
                      result \o SubSeq(content, lastIndex, tagIndex - 1)
                             \o HeadingHtml(heading),
                      tagIndex + Len(tagPattern))

\* processSectionsWithStructure(content, headings)
ProcessSectionsWithStructure(content, headings) ==
    ReplaceHeadings(content, SortByIndex(headings), <<>>, 1)

RECURSIVE SplitParagraphs(_, _)
\* content.split(/\n\n+/) with current the piece being read.
SplitParagraphs(content, current) ==
    IF content = <<>> THEN <<current>>
    ELSE IF Len(content) >= 2 /\ content[1] = "\n" /\ content[2] = "\n"
    THEN LET rest == CHOOSE r \in {SubSeq(content, k, Len(content)) :
                                      k \in 3..(Len(content) + 1)} :
                         /\ r = <<>> \/ Head(r) # "\n"
                         /\ \A j \in 3..(Len(content) - Len(r)) : content[j] = "\n"
         IN  <<current>> \o SplitParagraphs(rest, <<>>)
    ELSE SplitParagraphs(Tail(content), Append(current, Head(content)))

HeadingOpeners == {"<h1 id=\"", "<h2 id=\"", "<h3 id=\""}

RECURSIVE Split(_, _, _)
\* String.prototype.split on a one-token separator, with current the piece
\* being read.
Split(s, separator, current) ==
    IF s = <<>> THEN <<current>>
    ELSE IF Head(s) = separator
    THEN <<current>> \o Split(Tail(s), separator, <<>>)
    ELSE Split(Tail(s), separator, Append(current, Head(s)))

\* parseColumnSpec with every column left-aligned.
ParseColumnSpecAllLeft(spec) ==
    LET alignmentMatches == SelectSeq(spec, LAMBDA t : t \in {"l", "c", "r"})
    IN  [count |-> IF Len(alignmentMatches) = 0 THEN 1 ELSE Len(alignmentMatches),
         alignments |-> [i \in 1..Len(alignmentMatches) |-> "left"]]

\* parseColumnSpec(spec); the specs of the model hold no p{width} column.
ParseColumnSpec(spec) ==
    LET alignmentMatches == SelectSeq(spec, LAMBDA t : t \in {"l", "c", "r"})
    IN  [count |-> IF Len(alignmentMatches) = 0 THEN 1 ELSE Len(alignmentMatches),
         alignments |-> [i \in 1..Len(alignmentMatches) |->
                            IF alignmentMatches[i] = "l" THEN "left"
                            ELSE IF alignmentMatches[i] = "c" THEN "center"
                            ELSE "right"]]

HlineRow == "<tr class='hline'></tr>"

\* The <td> of column i (from 1) holding cell.
CellHtml(columns, i, cell) ==
    <<"<td style=\"text-align: ",
      IF i <= Len(columns.alignments) THEN columns.alignments[i] ELSE "left",
      "\">">> \o cell \o <<"</td>">>

\* What rows.forEach of processTabularEnvironment adds to tableHtml for one
\* trimmed row.
RowHtml(columns, row) ==
    IF row = <<>> THEN <<>>
    ELSE IF row = <<"\\hline">> THEN <<HlineRow>>
    ELSE LET leading == Head(row) = "\\hline"
             rowContent == IF leading THEN Trim(Tail(row)) ELSE row
             pieces == Split(rowContent, "&", <<>>)
             cells == [i \in 1..Len(pieces) |-> Trim(pieces[i])]
         IN  (IF leading THEN <<HlineRow>> ELSE <<>>)
             \o (IF rowContent = <<>> THEN <<>>
                 ELSE <<"<tr>">>
                      \o Concat([i \in 1..Len(cells) |->
                                    CellHtml(columns, i, cells[i])])
                      \o Concat([k \in 1..(columns.count - Len(cells)) |->
                                    CellHtml(columns, Len(cells) + k, <<>>)])
                      \o <<"</tr>">>)

\* The replacement processTabularEnvironment makes for one match.
TableHtml(columnSpec, tableContent) ==
    LET columns == ParseColumnSpec(columnSpec)
        pieces == Split(tableContent, "\\\\", <<>>)
    IN  <<"<table>">>
        \o Concat([i \in 1..Len(pieces) |-> RowHtml(columns, Trim(pieces[i]))])
        \o <<"</table>">>

RECURSIVE ProcessTabularEnvironment(_)
\* processTabularEnvironment(content): every match of
\* \begin{tabular}{(.*?)}([\s\S]*?)\end{tabular} replaced by its table.
ProcessTabularEnvironment(content) ==
    IF content = <<>> THEN <<>>
    ELSE LET close == IF Head(content) = "\\begin{tabular}"
                      THEN ClosingBrace(content, 2)
                      ELSE 0
             end == IF close = 0 THEN 0
                    ELSE IndexOf(content, <<"\\end{tabular}">>, close + 1)
         IN  IF end # 0
             THEN TableHtml(SubSeq(content, 3, close - 1),
                            SubSeq(content, close + 1, end - 1))
                  \o ProcessTabularEnvironment(SubSeq(content, end + 1, Len(content)))
             ELSE <<Head(content)>> \o ProcessTabularEnvironment(Tail(content))

\* processLatexTables(content); the sources of the model hold no table
\* environment, so that only the standalone tabulars are replaced.
ProcessLatexTables(content) == ProcessTabularEnvironment(content)

\* What processContent's map makes of a paragraph.
ProcessParagraph(p) ==
    IF Head(Trim(p)) \in HeadingOpeners THEN p
    ELSE LET processed == ProcessLatexTables(p)
         IN  IF Head(processed) = "<table>" THEN processed
             ELSE <<"<p>">> \o processed \o <<"</p>">>

RECURSIVE JoinLines(_)
\* Array.prototype.join("\n")
JoinLines(ps) ==
    IF ps = <<>> THEN <<>>
    ELSE IF Len(ps) = 1 THEN ps[1]
    ELSE ps[1] \o <<"\n">> \o JoinLines(Tail(ps))

\* processContent(content)
ProcessContent(content) ==
    JoinLines(SelectSeq([i \in DOMAIN SplitParagraphs(content, <<>>) |->
                            IF Trim(SplitParagraphs(content, <<>>)[i]) = <<>>
                            THEN <<>>
                            ELSE ProcessParagraph(SplitParagraphs(content, <<>>)[i])],
                        LAMBDA p : p # <<>>))

Months ==
    <<"January", "February", "March", "April", "May", "June", "July",
      "August", "September", "October", "November", "December">>

\* getCurrentDate() when new Date() is date, a record of what getMonth(),
\* getDate() and getFullYear() return.
GetCurrentDate(date) ==
    <<Months[date.month + 1], " ", ToString(date.date), ",", " ",
      ToString(date.fullYear)>>

RECURSIVE ReplaceAll(_, _, _)
\* content.replace(/<token>/g, by)
ReplaceAll(content, token, by) ==
    IF content = <<>> THEN <<>>
    ELSE (IF Head(content) = token THEN by ELSE <<Head(content)>>)
         \o ReplaceAll(Tail(content), token, by)

\* processSpecialCommands(content, headings) when new Date() is date; the
\* sources of the model hold no \tableofcontents.
ProcessSpecialCommands(content, headings, date) ==
    ReplaceAll(content, "\\today", GetCurrentDate(date))

\* compileLatex(latex) invoked when new Date() is date: the source compiled,
\* the source without its comments, the headings found and the body of the
\* page.
CompileLatex(latex, date) ==
    LET Uncomment(uncommented) ==
          LET Compile(content) ==
                LET Body(headings) ==
                      [done |-> TRUE, latex |-> latex,
                       uncommented |-> uncommented, headings |-> headings,
                       body |-> ProcessContent(
                                    ProcessSpecialCommands(
                                        ProcessSectionsWithStructure(content,
                                                                     headings),
                                        headings, date))]
                IN  ByValue(Body, AnalyzeDocumentStructure(content))
          IN  ByValue(Compile, Trim(uncommented))
    IN  ByValue(Uncomment, RemoveLatexComments(latex))

-----------------------------------------------------------------------------
(* The preview: its content and the page compiled from it                  *)

MaxSnippets == 4
MaxDays == 1

\* new Date() on day clock: days run from 31 December 2025 on.
DateOf(day) ==
    IF day = 0 THEN [month |-> 11, date |-> 31, fullYear |-> 2025]
    ELSE [month |-> 0, date |-> day, fullYear |-> 2026]

\* \begin{tabular}{l} a \\ \end{tabular}
TabularSnippet ==
    <<"\\begin{tabular}", "{", "l", "}", " ", "a", " ", "\\\\", " ",
      "\\end{tabular}">>

\* What is typed into the source at once.
Snippets ==
    {<<"\\section", "{", "A", "}">>,
     <<"\\subsection", "{", "B", "}">>,
     <<"\\subsection", "{", "C", "}">>,
     <<"\\section", "{", "D", "}">>,
     <<"\\subsubsection", "{", "A", "}">>,
     <<"\n">>,
     <<"100", "\\", "%", " ", "done", " ", "%", " ", "note">>,
     <<"\\today">>,
     TabularSnippet}

NoTable == [columns |-> <<>>, rows |-> <<>>]

NotCompiled ==
    [done |-> FALSE, latex |-> <<>>, uncommented |-> <<>>, headings |-> <<>>,
     body |-> <<>>]

\* No timer of the preview is modelled.
Unmounted ==
    [mounted |-> FALSE, debounce |-> -1, settles |-> <<>>,
     isCompiling |-> FALSE, shown |-> -1]

CompileIdle ==
    /\ source = <<>>
    /\ typed = 0
    /\ compiled = NotCompiled
    /\ clock = 0
    /\ table = NoTable
    /\ preview = Unmounted

CompileInit == CompileIdle

\* The content prop changes: a snippet is typed at the end of the source.
ChangeContent ==
    /\ typed < MaxSnippets
    /\ \E snippet \in Snippets : source' = source \o snippet
    /\ typed' = typed + 1
    /\ UNCHANGED <<compiled, clock, table, notCompile>>

\* compileDocument: the page is compiled from the content.
CompileDocument ==
    /\ compiled' = CompileLatex(source, DateOf(clock))
    /\ UNCHANGED <<source, typed, clock, table, notCompile>>

\* Midnight passes.
NextDay ==
    /\ clock < MaxDays
    /\ clock' = clock + 1
    /\ UNCHANGED <<source, typed, compiled, table, notCompile>>

CompileNext ==
    \/ ChangeContent
    \/ CompileDocument
    \/ NextDay

-----------------------------------------------------------------------------
(* LatexPreview with its timers: the effect on [content] schedules         *)
(* compileDocument 800 ms later and its cleanup clears that timer;         *)
(* compileDocument waits 300 ms more and compiles the content of the       *)
(* render that scheduled it.  Time is counted in steps of 100 ms.          *)

MaxEdits == 2
DebounceDelay == 8
SettleDelay == 3
NoTimer == -1

\* What is typed into the previewed source at once.
PreviewSnippets ==
    {<<"\\section", "{", "A", "}">>,
     <<"\n">>,
     <<"\\today">>}

\* The contents the preview can hold: up to MaxEdits snippets typed.
PreviewSources ==
    UNION {{Concat(typing) : typing \in [1..n -> PreviewSnippets]} : n \in 0..MaxEdits}

\* compileLatex tabulated over the contents the preview can hold and the
\* days it can run on.
CompiledPages ==
    [content \in PreviewSources, day \in 0..MaxDays |->
        CompileLatex(content, DateOf(day))]

\* The component mounts on the empty document: the effect runs once.
PreviewInit ==
    /\ source = <<>>
    /\ typed = 0
    /\ compiled = NotCompiled
    /\ clock = 0
    /\ table = NoTable
    /\ preview = [mounted |-> TRUE, debounce |-> DebounceDelay, settles |-> <<>>,
                  isCompiling |-> FALSE, shown |-> -1]

\* The content prop changes: the cleanup of the effect clears nothing.
PreviewChangeContentNoReschedule ==
    /\ typed < MaxEdits
    /\ \E snippet \in PreviewSnippets : source' = source \o snippet
    /\ typed' = typed + 1
    /\ preview' = [preview EXCEPT !.debounce = NoTimer]
    /\ UNCHANGED <<compiled, notPreview>>

\* The content prop changes: the cleanup of the effect clears the debounce
\* timer and the effect sets a new one; the 300 ms waits go on.
PreviewChangeContent ==
    /\ typed < MaxEdits
    /\ \E snippet \in PreviewSnippets : source' = source \o snippet
    /\ typed' = typed + 1
    /\ preview' = [preview EXCEPT !.debounce = DebounceDelay]
    /\ UNCHANGED <<compiled, notPreview>>

\* 100 ms pass while no timer is due.
TimePasses ==
    /\ preview.debounce # 0
    /\ \A i \in 1..Len(preview.settles) : preview.settles[i].left # 0
    /\ preview.debounce # NoTimer \/ preview.settles # <<>>
    /\ preview' = [preview EXCEPT
                      !.debounce = IF @ = NoTimer THEN NoTimer ELSE @ - 1,
                      !.settles = [i \in 1..Len(@) |->
                                      [@[i] EXCEPT !.left = @ - 1]]]
    /\ UNCHANGED <<source, typed, compiled, notPreview>>

\* The debounce timer fires: compileDocument starts and waits 300 ms; it
\* holds the content of the render that set the timer.
DebounceFires ==
    /\ preview.debounce = 0
    /\ preview' = [preview EXCEPT
                      !.debounce = NoTimer,
                      !.isCompiling = TRUE,
                      !.settles = Append(@, [left |-> SettleDelay,
                                             content |-> source,
                                             version |-> typed])]
    /\ UNCHANGED <<source, typed, compiled, notPreview>>

\* The 300 ms wait of the oldest compileDocument ends: compileLatex runs on
\* its content and the page is shown.
SettleFires ==
    /\ preview.settles # <<>>
    /\ Head(preview.settles).left = 0
    /\ compiled' = CompiledPages[Head(preview.settles).content, clock]
    /\ preview' = [preview EXCEPT
                      !.settles = Tail(@),
                      !.isCompiling = FALSE,
                      !.shown = Head(preview.settles).version]
    /\ UNCHANGED <<source, typed, notPreview>>

PreviewNext ==
    \/ PreviewChangeContent
    \/ TimePasses
    \/ DebounceFires
    \/ SettleFires

\* C27: compileLatex is only called on the content the preview has at the
\* time of the call: a compile scheduled for content that has changed since
\* is not run.
C27_Step ==
    Len(preview'.settles) < Len(preview.settles) => compiled'.latex = source'

C27_SupersededNeverCompiled == [][C27_Step]_vars

\* C30: the preview comes to show the page compileLatex returns for the
\* latest content, with isCompiling false, and keeps it; and the page shown
\* is never replaced by the page of older content.
C30_Settled ==
    /\ compiled.done
    /\ compiled.latex = source
    /\ preview.shown = typed
    /\ ~preview.isCompiling

C30_EventuallyLatest ==
    /\ <>[]C30_Settled
    /\ [](C30_Settled => compiled = CompileLatex(source, DateOf(clock)))
    /\ [][preview'.shown >= preview.shown]_vars

\* C30: the content has changed twice, the page of the latest content is
\* shown and no timer is left.
C30_Witness ==
    /\ preview.mounted
    /\ typed = 2
    /\ C30_Settled
    /\ preview.debounce = NoTimer
    /\ preview.settles = <<>>

-----------------------------------------------------------------------------
(* The preview on a document that is one tabular environment               *)

MaxColumns == 3
MaxRows == 2

CellTexts == <<"a", "b", "c", "d", "e">>

ColumnSpecs == UNION {[1..n -> {"l", "c", "r"}] : n \in 1..MaxColumns}

\* The rows of a tabular: a rule, or up to MaxColumns cells.
TabularRows ==
    {[hline |-> TRUE, cells |-> <<>>]}
    \cup {[hline |-> FALSE, cells |-> SubSeq(CellTexts, 1, n)] : n \in 1..MaxColumns}

\* The bodies of a tabular: up to MaxRows rows, no two rules in a row.
TabularBodies ==
    {rows \in UNION {[1..n -> TabularRows] : n \in 1..MaxRows} :
        \A k \in 1..(Len(rows) - 1) : ~(rows[k].hline /\ rows[k + 1].hline)}

RECURSIVE CellsSource(_)
\* a & b & c
CellsSource(cells) ==
    IF Len(cells) = 1 THEN cells
    ELSE <<Head(cells), " ", "&", " ">> \o CellsSource(Tail(cells))

\* The source of a row: ` \hline`, or the cells and the row end ` a & b \\`.
RowSource(row) ==
    IF row.hline THEN <<" ", "\\hline">>
    ELSE <<" ">> \o CellsSource(row.cells) \o <<" ", "\\\\">>

\* \begin{tabular}{columns} rows \end{tabular}
TabularSource(columns, rows) ==
    <<"\\begin{tabular}", "{">> \o columns \o <<"}">>
    \o Concat([k \in 1..Len(rows) |-> RowSource(rows[k])])
    \o <<" ", "\\end{tabular}">>

\* The preview opened on a document that is one tabular environment.
TabularInit ==
    /\ \E columns \in ColumnSpecs, rows \in TabularBodies :
          /\ source = TabularSource(columns, rows)
          /\ table = [columns |-> columns, rows |-> rows]
    /\ typed = 0
    /\ compiled = NotCompiled
    /\ clock = 0
    /\ preview = Unmounted

-----------------------------------------------------------------------------
(* Properties of the compiled page                                         *)

SpanOpen == "<span class=\"section-number\">"
SpanClose == "</span>"

\* The level of the heading element an opening token starts.
LevelOfOpener(t) ==
    IF t = "<h1 id=\"" THEN 1 ELSE IF t = "<h2 id=\"" THEN 2 ELSE 3

\* The first position from i on where body holds t; past the end if none.
NextPosition(body, t, i) ==
    LET at == {j \in i..Len(body) : body[j] = t}
    IN  IF at = {} THEN Len(body) + 1
        ELSE CHOOSE j \in at : \A k \in at : j <= k

RECURSIVE HeadingElements(_, _)
\* The heading elements of body from position i on, in order: the level of
\* each and what its section-number span contains.
HeadingElements(body, i) ==
    IF i > Len(body) THEN <<>>
    ELSE IF body[i] \in HeadingOpeners
    THEN LET open == NextPosition(body, SpanOpen, i)
             close == NextPosition(body, SpanClose, open)
         IN  <<[level |-> LevelOfOpener(body[i]),
                number |-> SubSeq(body, open + 1, close - 1)]>>
             \o HeadingElements(body, i + 1)
    ELSE HeadingElements(body, i + 1)

\* C9: the page has one h1, h2 or h3 element for every heading found, by
\* level and in order, and the element's section-number span contains the
\* heading's dotted number and nothing else.
C9_SectionNumberSpans ==
    compiled.done =>
        HeadingElements(compiled.body, 1)
            = [i \in 1..Len(compiled.headings) |->
                  [level |-> compiled.headings[i].level,
                   number |-> compiled.headings[i].number]]

\* The headings of the given level among headings[from..to].
C18_Count(headings, level, from, to) ==
    Cardinality({j \in from..to : headings[j].level = level})

\* Every subsection follows a section, and every subsubsection follows a
\* subsection of the same section.
C18_WellNested(headings) ==
    \A i \in 1..Len(headings) :
        LET section == FindLastIndexBefore(headings, i, 1)
            subsection == FindLastIndexBefore(headings, i, 2)
        IN  /\ headings[i].level = 2 => section > 0
            /\ headings[i].level = 3 => (section > 0 /\ subsection > section)

\* The number the LaTeX counters give heading i of a well-nested sequence.
C18_LatexNumber(headings, i) ==
    LET section == IF headings[i].level = 1 THEN i
                   ELSE FindLastIndexBefore(headings, i, 1)
        subsection == IF headings[i].level = 2 THEN i
                      ELSE FindLastIndexBefore(headings, i, 2)
        n == <<ToString(C18_Count(headings, 1, 1, section))>>
        k == <<".", ToString(C18_Count(headings, 2, section, subsection))>>
        j == <<".", ToString(C18_Count(headings, 3, subsection, i))>>
    IN  IF headings[i].level = 1 THEN n
        ELSE IF headings[i].level = 2 THEN n \o k
        ELSE n \o k \o j

\* C18: the headings of a well-nested document carry the numbers of the
\* LaTeX counters, and no two of them the same number.
C18_LatexNumbering ==
    (compiled.done /\ C18_WellNested(compiled.headings)) =>
        LET headings == compiled.headings
        IN  /\ \A i \in 1..Len(headings) :
                   headings[i].number = C18_LatexNumber(headings, i)
            /\ \A i, j \in 1..Len(headings) :
                   headings[i].number = headings[j].number => i = j

\* C16: compileLatex is a function of its input alone: an invocation on
\* the source of the invocation before it returns the same page.
C16_Step ==
    (compiled.done /\ compiled'.done /\ compiled'.latex = compiled.latex)
    => compiled'.body = compiled.body

C16_CompileLatexIsPure == [][C16_Step]_vars

\* The text-align of claim C11 for a column letter.
C11_Align(letter) ==
    IF letter = "l" THEN "left" ELSE IF letter = "c" THEN "center" ELSE "right"

RECURSIVE C11_CellsOf(_, _)
\* The <td> elements of body from position i up to the next </tr>: the
\* text-align and the text of each.
C11_CellsOf(body, i) ==
    IF i > Len(body) \/ body[i] = "</tr>" THEN <<>>
    ELSE IF body[i] = "<td style=\"text-align: "
    THEN <<[align |-> body[i + 1],
            text |-> SubSeq(body, i + 3, NextPosition(body, "</td>", i) - 1)]>>
         \o C11_CellsOf(body, i + 1)
    ELSE C11_CellsOf(body, i + 1)

RECURSIVE C11_RowsOf(_, _)
\* The <tr> elements of body from position i on, in order.
C11_RowsOf(body, i) ==
    IF i > Len(body) THEN <<>>
    ELSE IF body[i] = HlineRow
    THEN <<[hline |-> TRUE, cells |-> <<>>]>> \o C11_RowsOf(body, i + 1)
    ELSE IF body[i] = "<tr>"
    THEN <<[hline |-> FALSE, cells |-> C11_CellsOf(body, i + 1)]>>
         \o C11_RowsOf(body, i + 1)
    ELSE C11_RowsOf(body, i + 1)

C26_Count(s, t) == Len(SelectSeq(s, LAMBDA x : x = t))

\* C26: every complete tabular environment of the source without comments
\* is a table of the page, and none is left as source, whatever its chunk
\* begins with.
C26_TabularsConverted ==
    compiled.done
    => /\ C26_Count(compiled.body, "\\begin{tabular}") = 0
       /\ C26_Count(compiled.body, "<table>")
            = C26_Count(compiled.uncommented, "\\begin{tabular}")

RECURSIVE C25_Before(_, _, _)
\* Of every line of s from position i on, the characters before its first
\* percent sign that no backslash precedes, with the newlines; skipping
\* says a comment of the line has begun.
C25_Before(s, i, skipping) ==
    IF i > Len(s) THEN <<>>
    ELSE IF s[i] = "\n" THEN <<"\n">> \o C25_Before(s, i + 1, FALSE)
    ELSE IF skipping THEN C25_Before(s, i + 1, TRUE)
    ELSE IF s[i] = "\\" /\ i < Len(s) /\ s[i + 1] = "%"
    THEN <<"\\", "%">> \o C25_Before(s, i + 2, FALSE)
    ELSE IF s[i] = "%" THEN C25_Before(s, i + 1, TRUE)
    ELSE <<s[i]>> \o C25_Before(s, i + 1, FALSE)

\* C25: what removeLatexComments returns holds, of every line of the source,
\* exactly the characters before the first unescaped percent sign, and the
\* newlines.
C25_CommentsRemoved ==
    compiled.done => compiled.uncommented = C25_Before(compiled.latex, 1, FALSE)

PercentLine == <<"100", "\\", "%", " ", "done", " ", "%", " ", "note">>

\* C10: the page compiled from `100\% done % note` contains `100% done`,
\* the escaped percent sign as a literal one, and does not contain `note`.
C10_EscapedPercentIsLiteral ==
    (compiled.done /\ compiled.latex = PercentLine) =>
        /\ Includes(compiled.body, <<"100", "%", " ", "done">>)
        /\ ~Includes(compiled.body, <<"note">>)

-----------------------------------------------------------------------------
(* Specifications: each subsystem runs with the others at rest             *)

RestructureNext == Restructure

\* The editor with its tracker, new or after a burst of typing; no document
\* parsed, nothing compiled.
InitTracker ==
    (TrackerInit \/ TrackerResumed) /\ ASTIdle /\ WorkIdle /\ CompileIdle

SpecTracker == InitTracker /\ [][TrackerNext]_vars

\* The tracker of an editor with or without a model, called with any event.
InitTrackerRaw == RawTrackerInit /\ ASTIdle /\ WorkIdle /\ CompileIdle

SpecTrackerRaw == InitTrackerRaw /\ [][RawTrackerNext]_vars

\* The context provider on some document.
InitAST == TrackerInit /\ ASTInit /\ WorkIdle /\ CompileIdle

SpecAST == InitAST /\ [][ASTNext]_vars

\* restructureNodes applied again and again to some parser output.
InitRestructure == TrackerInit /\ ASTIdle /\ RestructureInit /\ CompileIdle

SpecRestructure == InitRestructure /\ [][RestructureNext]_vars

\* The preview on an empty source.
InitCompile == TrackerInit /\ ASTIdle /\ WorkIdle /\ CompileInit

SpecCompile == InitCompile /\ [][CompileNext]_vars

InitPreview == TrackerInit /\ ASTIdle /\ WorkIdle /\ PreviewInit

SpecPreview == InitPreview /\ [][PreviewNext]_vars

\* Time goes on and the event loop runs the callbacks of the timers due.
SpecPreviewFair ==
    /\ InitPreview
    /\ [][PreviewNext]_vars
    /\ WF_vars(TimePasses)
    /\ WF_vars(DebounceFires)
    /\ WF_vars(SettleFires)

TabularNext == CompileDocument

\* The preview on a tabular environment.
InitTabular == TrackerInit /\ ASTIdle /\ WorkIdle /\ TabularInit

SpecTabular == InitTabular /\ [][TabularNext]_vars

=============================================================================
